---- MODULE Spec2Model ----
(***************************************************************************)
(* Command framework of discord-untitled: construction of an argument      *)
(* collector, interactive argument collection, throttling and the run of   *)
(* a command message.                                                      *)
(***************************************************************************)
EXTENDS Integers, Sequences, FiniteSets, TLC

\* ------------------------------------------------------------------------
\* Bounds of the model
\* ------------------------------------------------------------------------
MaxArgs == 3        \* longest argument-definition list given to a constructor
MaxMsgs == 2        \* command messages handled concurrently in one behaviour
MaxSeqMsgs == 3     \* command messages handled one after the other in one behaviour
MaxReplies == 2     \* replies one run may receive while collecting

\* ------------------------------------------------------------------------
\* JavaScript values
\* ------------------------------------------------------------------------
NULL == "null"              \* null and undefined, where the code treats them alike
OMITTED_ == "undefined"     \* a property that is absent from an info object
Infinity == 1000            \* Number.POSITIVE_INFINITY, above every count of the model

\* !value for the raw values of the model: undefined, null and ''
Falsy(v) == v = NULL \/ v = ""

\* ------------------------------------------------------------------------
\* BaseArgumentCollector.constructor
\* ------------------------------------------------------------------------
ArgKeys == {"k1", "k2"}
InfoDefaults == {OMITTED_, NULL, "D"}

\* an ArgumentInfo: the fields the constructors read; valid says whether
\* BaseArgument.validateInfo accepts the remaining fields
ArgInfos == [key: ArgKeys, dflt: InfoDefaults, infinite: BOOLEAN, wait: {0, 1}, valid: BOOLEAN]

\* new BaseArgument(client, info): the fields kept by the argument
BaseArgumentNew(info) ==
    [key |-> info.key,
     dflt |-> IF info.dflt # OMITTED_ THEN info.dflt ELSE NULL,
     infinite |-> info.infinite,
     wait |-> info.wait]

\* the arguments of a constructor call: isArray is false for a value that is
\* falsy or no Array; limitGiven is false for a promptLimit of undefined or null
CtorCall(isArray, args, limitGiven, promptLimit) ==
    [isArray |-> isArray, args |-> args, limitGiven |-> limitGiven,
     promptLimit |-> promptLimit]

CtorIdle ==
    [state |-> "new", err |-> NULL, i |-> 0, hasInfinite |-> FALSE,
     hasOptional |-> FALSE, args |-> << >>, promptLimit |-> 0]

\* the constructor up to its loop
CtorStart(in) ==
    IF ~in.isArray
    THEN [CtorIdle EXCEPT !.state = "threw", !.err = "Collector args must be an Array."]
    ELSE [CtorIdle EXCEPT !.state = "loop",
                          !.promptLimit = IF in.limitGiven THEN in.promptLimit
                                          ELSE Infinity]

\* args[i].default !== null, read from the info object
InfoIsOptional(info) == info.dflt # NULL

\* the loop without "if (this.args[i].infinite) hasInfinite = true"
CtorIterateNoInfinite(infos, c) ==
    IF c.i >= Len(infos) THEN [c EXCEPT !.state = "ok"]
    ELSE LET info == infos[c.i + 1] IN
         IF ~InfoIsOptional(info) /\ c.hasOptional
         THEN [c EXCEPT !.state = "threw",
                        !.err = "Required arguments may not come after optional arguments."]
         ELSE IF ~info.valid
         THEN [c EXCEPT !.state = "threw", !.err = "validateInfo",
                        !.hasOptional = c.hasOptional \/ InfoIsOptional(info)]
         ELSE [c EXCEPT !.i = c.i + 1,
                        !.hasOptional = c.hasOptional \/ InfoIsOptional(info),
                        !.args = Append(c.args, BaseArgumentNew(info))]

\* one iteration of the constructor's loop, or the end of the constructor
CtorIterate(infos, c) ==
    IF c.i >= Len(infos) THEN [c EXCEPT !.state = "ok"]
    ELSE LET info == infos[c.i + 1] IN
         IF c.hasInfinite
         THEN [c EXCEPT !.state = "threw",
                        !.err = "No other argument may come after an infinite argument."]
         ELSE IF ~InfoIsOptional(info) /\ c.hasOptional
         THEN [c EXCEPT !.state = "threw",
                        !.err = "Required arguments may not come after optional arguments."]
         ELSE IF ~info.valid
         THEN [c EXCEPT !.state = "threw", !.err = "validateInfo",
                        !.hasOptional = c.hasOptional \/ InfoIsOptional(info)]
         ELSE [c EXCEPT !.i = c.i + 1,
                        !.hasOptional = c.hasOptional \/ InfoIsOptional(info),
                        !.hasInfinite = c.hasInfinite \/ BaseArgumentNew(info).infinite,
                        !.args = Append(c.args, BaseArgumentNew(info))]

RECURSIVE CtorRun(_, _)
CtorRun(infos, c) == IF c.state # "loop" THEN c ELSE CtorRun(infos, CtorIterate(infos, c))

\* new BaseArgumentCollector(client, args, promptLimit)
Construct(in) ==
    LET c == CtorStart(in) IN
    IF c.state = "threw" THEN c ELSE CtorRun(in.args, c)

\* ------------------------------------------------------------------------
\* Raw values, validators and parsers
\* ------------------------------------------------------------------------
\* strings a user can supply on the command line or as a reply; "" is the
\* falsy entry (an empty string or an undefined slot of the parsed arguments)
RawValues == {"", "good", "good2", "bad", "warn", "boom", "nan", "cancel", "Cancel", "finish"}

\* String.prototype.toLowerCase on the raw values
ToLowerCase(v) == IF v = "Cancel" THEN "cancel" ELSE v

\* BaseArgument.validate: "true", "false", "msg" (a string naming the error)
\* or "throw" (the validator throws or its promise rejects)
Validate(v) ==
    CASE v = "good" -> "true"
      [] v = "good2" -> "true"
      [] v = "nan"  -> "true"
      [] v = "warn" -> "msg"
      [] v = "boom" -> "throw"
      [] OTHER      -> "false"

\* BaseArgument.parse: the parsed value, or a throw
ParseThrows(v) == v = "nan"
Parse(v) ==
    CASE v = "good"  -> "GOOD"
      [] v = "good2" -> "GOOD2"
      [] OTHER       -> "JUNK"

\* ------------------------------------------------------------------------
\* BaseArgument.obtain, BaseArgument.obtainInfinite, BaseArgumentCollector.obtain
\* ------------------------------------------------------------------------
\* the values of a result: null, one parsed value or default, or a list
VNull == [k |-> "null", v |-> << >>]
VOne(x) == [k |-> "one", v |-> <<x>>]
VMany(xs) == [k |-> "many", v |-> xs]
ABSENT == [k |-> "absent", v |-> << >>]     \* a key that is not set in the values object
EmptyValues == [k \in ArgKeys |-> ABSENT]   \* the object {}
NullValues == [k \in ArgKeys |-> VNull]     \* values: null of a cancelled collector result

ArgResult(values, cancelled, prompts, answers) ==
    [values |-> values, cancelled |-> cancelled, prompts |-> prompts, answers |-> answers]

\* Array.prototype.slice(i) with a 0-based start
Slice(s, i) == IF i >= Len(s) THEN << >> ELSE SubSeq(s, i + 1, Len(s))

RECURSIVE ConcatAll(_)
ConcatAll(ss) == IF ss = << >> THEN << >> ELSE Head(ss) \o ConcatAll(Tail(ss))

ConcatPrompts(results) == ConcatAll([j \in 1..Len(results) |-> results[j].prompts])
ConcatAnswers(results) == ConcatAll([j \in 1..Len(results) |-> results[j].answers])

\* locals of one BaseArgumentCollector.obtain call and of the argument obtain
\* it is suspended in
NewLocals ==
    [i |-> 0, results |-> << >>, values |-> EmptyValues,
     value |-> NULL, valid |-> "false", prompts |-> << >>, answers |-> << >>,
     ivalues |-> << >>, iresults |-> << >>, currentVal |-> 0, attempts |-> 0,
     pending |-> NULL]

NoResult == ArgResult(NullValues, NULL, << >>, << >>)
Threw(c) == [ctl |-> "threw", c |-> c, result |-> NoResult]
Suspend(ctl, c, text) == [ctl |-> ctl, c |-> [c EXCEPT !.pending = text], result |-> NoResult]

\* the value the collector hands to argument i (0-based)
ProvidedFor(arg, provided, i) ==
    IF arg.infinite THEN Slice(provided, i)
    ELSE IF i < Len(provided) THEN provided[i + 1] ELSE NULL

\* !value at the head of BaseArgument.obtain: an array is never falsy
NoValue(arg, value) == ~arg.infinite /\ Falsy(value)

RECURSIVE CollectorLoop(_, _, _)
RECURSIVE ArgReturn(_, _, _, _)
RECURSIVE SingleLoop(_, _, _)
RECURSIVE InfiniteOuter(_, _, _)
RECURSIVE InfiniteInner(_, _, _)

\* the loop without "if (result.cancelled) ... return"
ArgReturnNoStop(col, provided, c, result) ==
    CollectorLoop(col, provided,
                  [c EXCEPT !.results = Append(@, result),
                            !.values[col.args[c.i + 1].key] = result.values,
                            !.i = c.i + 1])

\* BaseArgumentCollector.obtain after an argument returned its result
ArgReturn(col, provided, c, result) ==
    LET c2 == [c EXCEPT !.results = Append(@, result)] IN
    IF result.cancelled # NULL
    THEN [ctl |-> "returned", c |-> c2,
          result |-> ArgResult(NullValues, result.cancelled,
                               ConcatPrompts(c2.results), ConcatAnswers(c2.results))]
    ELSE CollectorLoop(col, provided,
                       [c2 EXCEPT !.values[col.args[c.i + 1].key] = result.values,
                                  !.i = c.i + 1])

\* the while loop with the condition !valid alone: a string returned by the
\* validator ends it
SingleLoopStringIsValid(col, provided, c) ==
    IF c.valid \in {"true", "msg"}
    THEN IF ParseThrows(c.value) THEN Threw(c)
         ELSE ArgReturn(col, provided, c, ArgResult(VOne(Parse(c.value)), NULL, c.prompts, c.answers))
    ELSE IF Len(c.prompts) >= col.promptLimit
    THEN ArgReturn(col, provided, c, ArgResult(VNull, "promptLimit", c.prompts, c.answers))
    ELSE Suspend("prompt", c, IF Falsy(c.value) THEN "prompt" ELSE "invalid")

\* the while loop of BaseArgument.obtain, from its condition
SingleLoop(col, provided, c) ==
    IF c.valid = "true"
    THEN IF ParseThrows(c.value) THEN Threw(c)
         ELSE ArgReturn(col, provided, c, ArgResult(VOne(Parse(c.value)), NULL, c.prompts, c.answers))
    ELSE IF Len(c.prompts) >= col.promptLimit
    THEN ArgReturn(col, provided, c, ArgResult(VNull, "promptLimit", c.prompts, c.answers))
    ELSE Suspend("prompt", c,
                 IF Falsy(c.value) THEN "prompt"
                 ELSE IF c.valid = "msg" THEN "msg" ELSE "invalid")

\* the inner loop putting each parsed value in front of the results
InfiniteInnerPrepends(col, provided, c) ==
    IF c.valid = "true"
    THEN IF ParseThrows(c.value) THEN Threw(c)
         ELSE LET c2 == [c EXCEPT !.iresults = <<Parse(c.value)>> \o @,
                                  !.currentVal = c.currentVal + 1] IN
              IF c2.currentVal = Len(c.ivalues)
              THEN ArgReturn(col, provided, c2, ArgResult(VMany(c2.iresults), NULL, c.prompts, c.answers))
              ELSE InfiniteOuter(col, provided, c2)
    ELSE LET c2 == [c EXCEPT !.attempts = c.attempts + 1] IN
         IF c2.attempts > col.promptLimit
         THEN ArgReturn(col, provided, c2, ArgResult(VNull, "promptLimit", c.prompts, c.answers))
         ELSE IF ~Falsy(c.value)
         THEN Suspend("prompt", c2, IF c.valid = "msg" THEN "msg" ELSE "invalid")
         ELSE IF Len(c.iresults) = 0
         THEN Suspend("prompt", c2, "prompt")
         ELSE Suspend("wait", c2, NULL)

\* the inner loop that sends the argument's prompt for no wait
InfiniteInnerNoEntryPrompt(col, provided, c) ==
    IF c.valid = "true"
    THEN IF ParseThrows(c.value) THEN Threw(c)
         ELSE LET c2 == [c EXCEPT !.iresults = Append(@, Parse(c.value)),
                                  !.currentVal = c.currentVal + 1] IN
              IF c2.currentVal = Len(c.ivalues)
              THEN ArgReturn(col, provided, c2, ArgResult(VMany(c2.iresults), NULL, c.prompts, c.answers))
              ELSE InfiniteOuter(col, provided, c2)
    ELSE LET c2 == [c EXCEPT !.attempts = c.attempts + 1] IN
         IF c2.attempts > col.promptLimit
         THEN ArgReturn(col, provided, c2, ArgResult(VNull, "promptLimit", c.prompts, c.answers))
         ELSE IF ~Falsy(c.value)
         THEN Suspend("prompt", c2, IF c.valid = "msg" THEN "msg" ELSE "invalid")
         ELSE Suspend("wait", c2, NULL)

\* the inner while loop of BaseArgument.obtainInfinite, from its condition
InfiniteInner(col, provided, c) ==
    IF c.valid = "true"
    THEN IF ParseThrows(c.value) THEN Threw(c)
         ELSE LET c2 == [c EXCEPT !.iresults = Append(@, Parse(c.value)),
                                  !.currentVal = c.currentVal + 1] IN
              IF c2.currentVal = Len(c.ivalues)
              THEN ArgReturn(col, provided, c2, ArgResult(VMany(c2.iresults), NULL, c.prompts, c.answers))
              ELSE InfiniteOuter(col, provided, c2)
    ELSE LET c2 == [c EXCEPT !.attempts = c.attempts + 1] IN
         IF c2.attempts > col.promptLimit
         THEN ArgReturn(col, provided, c2, ArgResult(VNull, "promptLimit", c.prompts, c.answers))
         ELSE IF ~Falsy(c.value)
         THEN Suspend("prompt", c2, IF c.valid = "msg" THEN "msg" ELSE "invalid")
         ELSE IF Len(c.iresults) = 0
         THEN Suspend("prompt", c2, "prompt")
         ELSE Suspend("wait", c2, NULL)

\* the outer while loop of BaseArgument.obtainInfinite, from its top
InfiniteOuter(col, provided, c) ==
    LET value == IF c.currentVal < Len(c.ivalues) /\ ~Falsy(c.ivalues[c.currentVal + 1])
                 THEN c.ivalues[c.currentVal + 1] ELSE NULL
        valid == IF ~Falsy(value) THEN Validate(value) ELSE "false"
        c2 == [c EXCEPT !.value = value, !.valid = valid, !.attempts = 0]
    IN IF valid = "throw" THEN Threw(c2) ELSE InfiniteInner(col, provided, c2)

\* BaseArgument.obtain, from its entry, for argument c.i of the collector
ArgObtain(col, provided, c) ==
    LET arg == col.args[c.i + 1]
        value == ProvidedFor(arg, provided, c.i)
        c0 == [c EXCEPT !.prompts = << >>, !.answers = << >>, !.pending = NULL,
                        !.ivalues = << >>, !.iresults = << >>, !.currentVal = 0,
                        !.attempts = 0, !.value = NULL, !.valid = "false"]
    IN IF NoValue(arg, value) /\ arg.dflt # NULL
       THEN ArgReturn(col, provided, c0, ArgResult(VOne(arg.dflt), NULL, << >>, << >>))
       ELSE IF arg.infinite
       THEN InfiniteOuter(col, provided, [c0 EXCEPT !.ivalues = value])
       ELSE LET valid == IF ~Falsy(value) THEN Validate(value) ELSE "false"
                c1 == [c0 EXCEPT !.value = value, !.valid = valid]
            IN IF valid = "throw" THEN Threw(c1) ELSE SingleLoop(col, provided, c1)

\* the for loop of BaseArgumentCollector.obtain, from its condition
CollectorLoop(col, provided, c) ==
    IF c.i >= Len(col.args)
    THEN [ctl |-> "returned", c |-> c,
          result |-> ArgResult(c.values, NULL, ConcatPrompts(c.results), ConcatAnswers(c.results))]
    ELSE ArgObtain(col, provided, c)

\* 'finish' returning results whether or not any value was collected
OnReplyFinishAlways(col, provided, c, r) ==
    LET arg == col.args[c.i + 1]
        c1 == [c EXCEPT !.answers = Append(@, r), !.value = r, !.pending = NULL]
        lc == ToLowerCase(r)
    IN IF arg.infinite /\ lc = "finish"
       THEN ArgReturn(col, provided, c1,
                      ArgResult(VMany(c.iresults), NULL, c1.prompts, c1.answers))
       ELSE IF lc = "cancel"
       THEN ArgReturn(col, provided, c1, ArgResult(VNull, "user", c1.prompts, c1.answers))
       ELSE LET valid == Validate(r)
                c2 == [c1 EXCEPT !.valid = valid]
            IN IF valid = "throw" THEN Threw(c2)
               ELSE IF arg.infinite THEN InfiniteInner(col, provided, c2)
               ELSE SingleLoop(col, provided, c2)

\* the reply compared with 'cancel' and 'finish' without toLowerCase()
OnReplyCaseSensitive(col, provided, c, r) ==
    LET arg == col.args[c.i + 1]
        c1 == [c EXCEPT !.answers = Append(@, r), !.value = r, !.pending = NULL]
    IN IF arg.infinite /\ r = "finish"
       THEN ArgReturn(col, provided, c1,
                      ArgResult(IF Len(c.iresults) > 0 THEN VMany(c.iresults) ELSE VNull,
                                IF Len(c.iresults) > 0 THEN NULL ELSE "user",
                                c1.prompts, c1.answers))
       ELSE IF r = "cancel"
       THEN ArgReturn(col, provided, c1, ArgResult(VNull, "user", c1.prompts, c1.answers))
       ELSE LET valid == Validate(r)
                c2 == [c1 EXCEPT !.valid = valid]
            IN IF valid = "throw" THEN Threw(c2)
               ELSE IF arg.infinite THEN InfiniteInner(col, provided, c2)
               ELSE SingleLoop(col, provided, c2)

\* the reply compared with 'cancel' before it is pushed to answers
OnReplyCancelFirst(col, provided, c, r) ==
    LET arg == col.args[c.i + 1]
        c1 == [c EXCEPT !.answers = Append(@, r), !.value = r, !.pending = NULL]
        lc == ToLowerCase(r)
    IN IF arg.infinite /\ lc = "finish"
       THEN ArgReturn(col, provided, c1,
                      ArgResult(IF Len(c.iresults) > 0 THEN VMany(c.iresults) ELSE VNull,
                                IF Len(c.iresults) > 0 THEN NULL ELSE "user",
                                c1.prompts, c1.answers))
       ELSE IF lc = "cancel"
       THEN ArgReturn(col, provided, c, ArgResult(VNull, "user", c.prompts, c.answers))
       ELSE LET valid == Validate(r)
                c2 == [c1 EXCEPT !.valid = valid]
            IN IF valid = "throw" THEN Threw(c2)
               ELSE IF arg.infinite THEN InfiniteInner(col, provided, c2)
               ELSE SingleLoop(col, provided, c2)

\* the reply to a prompt arrives: awaitMessages resolved with one message
OnReply(col, provided, c, r) ==
    LET arg == col.args[c.i + 1]
        c1 == [c EXCEPT !.answers = Append(@, r), !.value = r, !.pending = NULL]
        lc == ToLowerCase(r)
    IN IF arg.infinite /\ lc = "finish"
       THEN ArgReturn(col, provided, c1,
                      ArgResult(IF Len(c.iresults) > 0 THEN VMany(c.iresults) ELSE VNull,
                                IF Len(c.iresults) > 0 THEN NULL ELSE "user",
                                c1.prompts, c1.answers))
       ELSE IF lc = "cancel"
       THEN ArgReturn(col, provided, c1, ArgResult(VNull, "user", c1.prompts, c1.answers))
       ELSE LET valid == Validate(r)
                c2 == [c1 EXCEPT !.valid = valid]
            IN IF valid = "throw" THEN Threw(c2)
               ELSE IF arg.infinite THEN InfiniteInner(col, provided, c2)
               ELSE SingleLoop(col, provided, c2)

\* awaitMessages resolved with no message: the wait window elapsed
OnTimeout(col, provided, c) ==
    ArgReturn(col, provided, c, ArgResult(VNull, "time", c.prompts, c.answers))

\* the test without "this.wait > 0"
HasTimeoutForZero(arg) == arg.wait # Infinity

\* this.wait > 0 && this.wait !== Infinity: awaitMessages is given a time limit
HasTimeout(arg) == arg.wait > 0 /\ arg.wait # Infinity

\* ------------------------------------------------------------------------
\* State
\* ------------------------------------------------------------------------
Msgs == 1..(IF MaxMsgs > MaxSeqMsgs THEN MaxMsgs ELSE MaxSeqMsgs)
Users == {"u1", "owner"}
Channels == {"c1", "c2"}
Owners == {"owner"}         \* client.options.owner

VARIABLES
    cmd,            \* the command: its info and its argument collector
    scn,            \* what the environment sends in this behaviour
    pc,             \* where the run of each command message is
    msg,            \* each command message: author, channel, guild, pattern
    provided,       \* the arguments parsed from the message of each run
    loc,            \* locals of the collector obtain of each run
    thrRef,         \* the local throttle of each run: 0 is null
    awaiting,       \* dispatcher._awaiting: author id + channel id
    thr,            \* throttle objects, by the message that created them;
                    \* age is Date.now() - start, up to the throttling duration;
                    \* ran counts the calls of command.run for the object's
                    \* user while its window was open, started those made
                    \* while the object was in _throttles
    throttles,      \* command._throttles: user -> throttle object, 0 is none
    timers,         \* throttle objects whose expiry timeout is pending
    bodyCalls,      \* times command.run was called for each message
    collResult,     \* the result argsCollector.obtain returned to each run
    blockReason,    \* reason of the commandBlocked event of each run
    remaining,      \* remaining computed for a run blocked by throttling
    prevRuns,       \* command bodies run so far in the window of the throttle
                    \* object a run got, at its throttle check
    inWindow,       \* whether the throttle check of a run was inside the window
    ctorIn,         \* arguments of a collector constructor call
    ctorSt,         \* state of that constructor call
    en,             \* a command, its group and the guilds: guarded flags,
                    \* _globalEnabled, _commandsEnabled, _groupsEnabled, and
                    \* the last call that set them
    out,            \* what each run sent: the reasons of its commandBlocked
                    \* events, the errors of its commandError events, and
                    \* the replies it returned
    recent,         \* per user, the time since each call of command.run that
                    \* is less than the throttling duration old
    reg,            \* the command registry: commands and groups in the order
                    \* they were set, each group's name and commands, each
                    \* command's group, and the last call
    num,            \* an integer or string argument: its info, its min and
                    \* max, the value validated and parsed
    prov            \* the settings provider: its client field, _listeners,
                    \* _settings, and its listeners subscribed to the client

runVars == <<pc, msg, provided, loc, thrRef, awaiting, thr, throttles, timers, bodyCalls,
             collResult, blockReason, remaining, prevRuns, inWindow, out>>
ctorVars == <<ctorIn, ctorSt>>
vars == <<cmd, scn, runVars, ctorVars, en, recent, reg, num, prov>>

\* UntitledClient.isOwner
IsOwner(u) == u \in Owners

\* msg.message.author.id + msg.message.channel.id
AwaitKey(x) == <<x.author, x.channel>>

NoThrottle == [made |-> FALSE, age |-> 0, usages |-> 0, user |-> NULL, ran |-> 0,
               started |-> 0]
NoMsg == [author |-> NULL, channel |-> NULL]
NoOut == [blocked |-> << >>, errors |-> << >>, replies |-> << >>]

\* ------------------------------------------------------------------------
\* BaseMessage.run, one segment between two suspensions at a time
\* ------------------------------------------------------------------------
\* what a segment of the run of message m reads and writes
Base(m) ==
    [pc |-> pc[m], provided |-> provided[m], loc |-> loc[m], ref |-> thrRef[m], awaiting |-> awaiting,
     thr |-> thr, throttles |-> throttles, timers |-> timers,
     body |-> bodyCalls[m], coll |-> collResult[m],
     reason |-> blockReason[m], remaining |-> remaining[m],
     prev |-> prevRuns[m], inWindow |-> inWindow[m], out |-> out[m]]

Apply(m, e) ==
    /\ pc' = [pc EXCEPT ![m] = e.pc]
    /\ loc' = [loc EXCEPT ![m] = e.loc]
    /\ provided' = [provided EXCEPT ![m] = e.provided]
    /\ thrRef' = [thrRef EXCEPT ![m] = e.ref]
    /\ awaiting' = e.awaiting
    /\ thr' = e.thr
    /\ throttles' = e.throttles
    /\ timers' = e.timers
    /\ bodyCalls' = [bodyCalls EXCEPT ![m] = e.body]
    /\ collResult' = [collResult EXCEPT ![m] = e.coll]
    /\ blockReason' = [blockReason EXCEPT ![m] = e.reason]
    /\ remaining' = [remaining EXCEPT ![m] = e.remaining]
    /\ prevRuns' = [prevRuns EXCEPT ![m] = e.prev]
    /\ inWindow' = [inWindow EXCEPT ![m] = e.inWindow]
    /\ out' = [out EXCEPT ![m] = e.out]

\* Date.now() lies in [start, start + duration) of throttle object id
InsideWindow(t, id) == t[id].made /\ t[id].age < cmd.duration

\* throttle that does not exempt owners
ThrottleOwnersToo(e, user, m) ==
    IF ~cmd.throttled THEN [e EXCEPT !.ref = 0]
    ELSE IF e.throttles[user] = 0
    THEN [e EXCEPT !.thr[m] = [made |-> TRUE, age |-> 0, usages |-> 0, user |-> user,
                               ran |-> 0, started |-> 0],
                   !.timers = @ \cup {m},
                   !.throttles[user] = m,
                   !.ref = m, !.prev = 0, !.inWindow = TRUE]
    ELSE [e EXCEPT !.ref = e.throttles[user],
                   !.prev = e.thr[e.throttles[user]].ran,
                   !.inWindow = InsideWindow(e.thr, e.throttles[user])]

\* throttle that restarts the window of the object it finds
ThrottleRenews(e, user, m) ==
    IF ~cmd.throttled \/ IsOwner(user) THEN [e EXCEPT !.ref = 0]
    ELSE IF e.throttles[user] = 0
    THEN [e EXCEPT !.thr[m] = [made |-> TRUE, age |-> 0, usages |-> 0, user |-> user,
                               ran |-> 0, started |-> 0],
                   !.timers = @ \cup {m},
                   !.throttles[user] = m,
                   !.ref = m, !.prev = 0, !.inWindow = TRUE]
    ELSE [e EXCEPT !.ref = e.throttles[user],
                   !.thr[e.throttles[user]].age = 0,
                   !.prev = e.thr[e.throttles[user]].ran,
                   !.inWindow = TRUE]

\* BaseCommand.throttle(userID) called by the run of message m
Throttle(e, user, m) ==
    IF ~cmd.throttled \/ IsOwner(user) THEN [e EXCEPT !.ref = 0]
    ELSE IF e.throttles[user] = 0
    THEN [e EXCEPT !.thr[m] = [made |-> TRUE, age |-> 0, usages |-> 0, user |-> user,
                               ran |-> 0, started |-> 0],
                   !.timers = @ \cup {m},
                   !.throttles[user] = m,
                   !.ref = m, !.prev = 0, !.inWindow = TRUE]
    ELSE [e EXCEPT !.ref = e.throttles[user],
                   !.prev = e.thr[e.throttles[user]].ran,
                   !.inWindow = InsideWindow(e.thr, e.throttles[user])]

\* return this.reply(text)
Replied(e, text) == [e EXCEPT !.out.replies = Append(@, text)]

\* the run ends with a commandBlocked event and a reply
Blocked(e, reason) ==
    Replied([e EXCEPT !.pc = "blocked", !.reason = reason,
                      !.out.blocked = Append(@, reason)], reason)

\* the reply of a run blocked by hasPermission: the string it returned, or
\* the text about the missing permission
BlockedByPermission(e, perm) ==
    IF perm \notin {"true", "false"}       \* typeof hasPermission === 'string'
    THEN Replied([e EXCEPT !.pc = "blocked", !.reason = "permission",
                           !.out.blocked = Append(@, "permission")], perm)
    ELSE Blocked(e, "permission")

\* the comparison one usage late: throttle.usages > throttling.usages
ThrottleExceededLate(e) ==
    e.ref # 0 /\ e.thr[e.ref].usages > cmd.usages

\* throttle && throttle.usages + 1 > this.command.throttling.usages
ThrottleExceeded(e) ==
    e.ref # 0 /\ e.thr[e.ref].usages + 1 > cmd.usages

\* (throttle.start + duration * 1000 - Date.now()) / 1000, in ticks of the clock
Remaining(e) == cmd.duration - e.thr[e.ref].age

\* the throttle object of user whose window holds Date.now(), 0 if none
WindowOf(t, user) ==
    IF \E id \in Msgs : InsideWindow(t, id) /\ t[id].user = user
    THEN CHOOSE id \in Msgs : InsideWindow(t, id) /\ t[id].user = user
    ELSE 0

\* if (throttle) throttle.usages++; this.command.run(this, args, fromPattern)
InvokeBody(e, x) ==
    LET t == IF e.ref # 0 THEN [e.thr EXCEPT ![e.ref].usages = @ + 1] ELSE e.thr
        w == WindowOf(e.thr, x.author)
        t2 == IF w # 0 THEN [t EXCEPT ![w].ran = @ + 1] ELSE t
        live == e.throttles[x.author]
    IN [e EXCEPT !.thr = IF live # 0 THEN [t2 EXCEPT ![live].started = @ + 1] ELSE t2,
                 !.body = e.body + 1,
                 !.pc = "body"]

\* the run without "if (result.cancelled) ... return"
AfterObtainNoReturn(e, r, x) ==
    IF r.ctl = "threw" THEN [e EXCEPT !.pc = "threw"]
    ELSE InvokeBody([e EXCEPT !.coll = r.result], x)

\* the run after argsCollector.obtain returned or threw
AfterObtain(e, r, x) ==
    IF r.ctl = "threw" THEN [e EXCEPT !.pc = "threw"]
    ELSE LET e1 == [e EXCEPT !.coll = r.result] IN
         IF r.result.cancelled # NULL
         THEN Replied([e1 EXCEPT !.pc = "cancelled"],
                      IF Len(r.result.prompts) = 0 THEN "format" ELSE "cancelled")
         ELSE InvokeBody(e1, x)

\* obtain without the catch block that deletes the awaiting mark
ObtainStepNoCatch(e, r, x) ==
    IF r.ctl \in {"prompt", "wait"}
    THEN [e EXCEPT !.pc = r.ctl, !.loc = r.c]
    ELSE AfterObtain([e EXCEPT !.awaiting = IF r.ctl = "threw" THEN @
                                            ELSE @ \ {AwaitKey(x)},
                               !.loc = NewLocals, !.provided = << >>], r, x)

\* BaseArgumentCollector.obtain reaches a suspension, a return or a throw:
\* the awaiting mark is deleted on every way out
ObtainStep(e, r, x) ==
    IF r.ctl \in {"prompt", "wait"}
    THEN [e EXCEPT !.pc = r.ctl, !.loc = r.c]
    ELSE AfterObtain([e EXCEPT !.awaiting = @ \ {AwaitKey(x)}, !.loc = NewLocals,
                               !.provided = << >>], r, x)

\* BaseArgumentCollector.obtain from its entry
ObtainStart(e, x, given) ==
    ObtainStep([e EXCEPT !.awaiting = @ \cup {AwaitKey(x)}, !.provided = given],
               CollectorLoop(cmd.collector, given, NewLocals), x)

\* "Figure out the command arguments" and what follows it
FigureArgs(e, x, pattern, given) ==
    IF pattern \/ ~cmd.hasCollector THEN InvokeBody(e, x)
    ELSE IF Len(cmd.collector.args) = 0
    THEN [e EXCEPT !.pc = "threw"]      \* collArgs[-1].infinite: TypeError
    ELSE ObtainStart(e, x, given)

\* the checks with the throttle taken before the guild-only check
RunChecksThrottleFirst(e, x, in, m) ==
    LET e1 == Throttle(e, x.author, m) IN
    IF cmd.guildOnly /\ ~in.guild THEN Blocked(e1, "guildOnly")
    ELSE IF in.perm # "true" THEN BlockedByPermission(e1, in.perm)
    ELSE IF ThrottleExceeded(e1)
         THEN [Blocked(e1, "throttling") EXCEPT !.remaining = Remaining(e1)]
         ELSE FigureArgs(e1, x, in.pattern, in.given)

\* the run from "Make sure the command is usable in this context"
RunChecks(e, x, in, m) ==
    IF cmd.guildOnly /\ ~in.guild THEN Blocked(e, "guildOnly")
    ELSE IF in.perm # "true" THEN BlockedByPermission(e, in.perm)
    ELSE LET e1 == Throttle(e, x.author, m) IN
         IF ThrottleExceeded(e1)
         THEN [Blocked(e1, "throttling") EXCEPT !.remaining = Remaining(e1)]
         ELSE FigureArgs(e1, x, in.pattern, in.given)

\* ------------------------------------------------------------------------
\* Actions of the run of a command message
\* ------------------------------------------------------------------------
BSeq(S, n) == UNION {[1..k -> S] : k \in 0..n}

\* the results of BaseMessage.parseArgs(argString, count) for this command:
\* at most count strings, count being Infinity after an infinite last argument
ParsedArgs ==
    IF ~cmd.hasCollector \/ Len(cmd.collector.args) = 0 THEN {<< >>}
    ELSE IF cmd.collector.args[Len(cmd.collector.args)].infinite
    THEN BSeq(scn.raws, scn.maxProvided)
    ELSE BSeq(scn.raws, Len(cmd.collector.args))

\* results of command.hasPermission: true, false or a string
Permissions == {"true", "false", "reason"}

\* CommandDispatcher.shouldHandleMessage: no command is handled for a
\* user+channel pair that is awaiting input
ShouldHandle(x) == AwaitKey(x) \notin awaiting

\* what the run reads of its message and command at the checks: whether the
\* message has a guild, the result of hasPermission, whether it came from a
\* pattern, and its parsed arguments
RunInput(guild, perm, pattern, given) ==
    [guild |-> guild, perm |-> perm, pattern |-> pattern, given |-> given]

RunInputs(guilds) ==
    {RunInput(g, p, pat, given) :
        g \in guilds, p \in Permissions, pat \in scn.patterns, given \in ParsedArgs}

\* a command message arrives and BaseMessage.run starts; it suspends at once
\* when the member of a guild message has to be fetched
Receive(m) ==
    /\ pc[m] = "new"
    /\ m <= scn.msgs
    /\ \A k \in Msgs : k < m => pc[k] # "new"
    /\ \E author \in scn.users, channel \in scn.channels :
         LET x == [author |-> author, channel |-> channel] IN
         /\ ShouldHandle(x)
         /\ msg' = [msg EXCEPT ![m] = x]
         /\ \/ Apply(m, [Base(m) EXCEPT !.pc = "fetch"])
            \/ \E in \in RunInputs(BOOLEAN) : Apply(m, RunChecks(Base(m), x, in, m))
    /\ UNCHANGED <<cmd, scn, ctorVars>>

\* guild.fetchMember resolved
FetchDone(m) ==
    /\ pc[m] = "fetch"
    /\ \E in \in RunInputs({TRUE}) : Apply(m, RunChecks(Base(m), msg[m], in, m))
    /\ UNCHANGED <<cmd, scn, msg, ctorVars>>

\* guild.fetchMember rejected: run rejects
FetchFail(m) ==
    /\ pc[m] = "fetch"
    /\ Apply(m, [Base(m) EXCEPT !.pc = "threw"])
    /\ UNCHANGED <<cmd, scn, msg, ctorVars>>

\* msg.reply resolved with the prompt message; awaitMessages starts
PromptSent(m) ==
    /\ pc[m] = "prompt"
    /\ Apply(m, [Base(m) EXCEPT !.pc = "wait",
                                !.loc.prompts = Append(@, loc[m].pending),
                                !.loc.pending = NULL])
    /\ UNCHANGED <<cmd, scn, msg, ctorVars>>

\* msg.reply rejected: the argument obtain throws
PromptFail(m) ==
    /\ pc[m] = "prompt"
    /\ Apply(m, ObtainStep(Base(m), Threw(loc[m]), msg[m]))
    /\ UNCHANGED <<cmd, scn, msg, ctorVars>>

\* replies received so far by the run of m
Answers(m) == Len(ConcatAnswers(loc[m].results)) + Len(loc[m].answers)

\* the author replies while awaitMessages is pending
Reply(m) ==
    /\ pc[m] = "wait"
    /\ Answers(m) < MaxReplies
    /\ \E r \in scn.replies :
          Apply(m, ObtainStep(Base(m), OnReply(cmd.collector, provided[m], loc[m], r),
                              msg[m]))
    /\ UNCHANGED <<cmd, scn, msg, ctorVars>>

\* awaitMessages ends with no message
Timeout(m) ==
    /\ pc[m] = "wait"
    /\ HasTimeout(cmd.collector.args[loc[m].i + 1])
    /\ Apply(m, ObtainStep(Base(m), OnTimeout(cmd.collector, provided[m], loc[m]),
                           msg[m]))
    /\ UNCHANGED <<cmd, scn, msg, ctorVars>>

\* how command.run ends: it resolves with a message, an array or null, resolves
\* with something else, or throws a FriendlyError, another error, or a value
\* that is null or undefined (throw null, Promise.reject())
BodyEnds == {"resolved", "unknownType", "friendly", "error", "nothing"}

\* what the catch block gets: its class and its message
Caught(class, message) == [class |-> class, message |-> message]
FriendlyMessages == {"no such item", "try again"}
GenericMessage == "An error occurred while running the command"

\* the values caught for each end of command.run
CaughtFor(how) ==
    IF how = "friendly" THEN {Caught("FriendlyError", t) : t \in FriendlyMessages}
    ELSE IF how = "unknownType" THEN {Caught("TypeError", "unknown type")}
    ELSE IF how = "error" THEN {Caught("Error", "boom")}
    ELSE IF how = "nothing" THEN {Caught(NULL, NULL)}
    ELSE {}

\* the catch block of run: emit commandError, then reply err.message for a
\* FriendlyError and the generic text otherwise; reading err.name of null or
\* undefined throws a TypeError out of the catch block
CatchBlock(e, err) ==
    LET e1 == [e EXCEPT !.out.errors = Append(@, err)] IN
    IF err.class = "FriendlyError" THEN Replied([e1 EXCEPT !.pc = "errorReply"], err.message)
    ELSE IF err.class = NULL THEN [e1 EXCEPT !.pc = "catchThrew"]
    ELSE Replied([e1 EXCEPT !.pc = "errorReply"], GenericMessage)

BodyDone(m) ==
    /\ pc[m] = "body"
    /\ \E how \in BodyEnds :
          \/ how = "resolved" /\ Apply(m, [Base(m) EXCEPT !.pc = "success"])
          \/ \E err \in CaughtFor(how) : Apply(m, CatchBlock(Base(m), err))
    /\ UNCHANGED <<cmd, scn, msg, ctorVars>>

\* throttle objects that nothing refers to any more are dropped: neither the
\* map nor a pending timeout nor a run holds them
Reachable(t, refs, pending) ==
    [id \in Msgs |-> IF id \in pending \/ (\E m \in Msgs : refs[m] = id)
                     THEN t[id] ELSE NoThrottle]

\* the timeout set by BaseCommand.throttle fires, no sooner than duration
\* after it was set: _throttles.delete(userID)
ExpireThrottle(id) ==
    /\ id \in timers
    /\ thr[id].age >= cmd.duration
    /\ timers' = timers \ {id}
    /\ throttles' = [throttles EXCEPT ![thr[id].user] = 0]
    /\ thr' = Reachable(thr, thrRef, timers')
    /\ UNCHANGED <<cmd, scn, pc, msg, provided, loc, thrRef, awaiting,
                   bodyCalls, collResult, blockReason, remaining,
                   prevRuns, inWindow, out, ctorVars>>

\* time passes: every throttle object whose window is open grows older
Tick ==
    /\ \E id \in Msgs : InsideWindow(thr, id)
    /\ thr' = [id \in Msgs |-> IF InsideWindow(thr, id)
                               THEN [thr[id] EXCEPT !.age = @ + 1] ELSE thr[id]]
    /\ UNCHANGED <<cmd, scn, pc, msg, provided, loc, thrRef, awaiting, throttles,
                   timers, bodyCalls, collResult, blockReason, remaining,
                   prevRuns, inWindow, out, ctorVars>>

\* the promise of run settled: the run and its locals are gone
Ended == {"blocked", "cancelled", "success", "errorReply", "threw", "catchThrew"}

Retire(m) ==
    /\ pc[m] \in Ended
    /\ pc' = [pc EXCEPT ![m] = "done"]
    /\ thrRef' = [thrRef EXCEPT ![m] = 0]
    /\ bodyCalls' = [bodyCalls EXCEPT ![m] = 0]
    /\ collResult' = [collResult EXCEPT ![m] = NoResult]
    /\ blockReason' = [blockReason EXCEPT ![m] = NULL]
    /\ remaining' = [remaining EXCEPT ![m] = 0]
    /\ prevRuns' = [prevRuns EXCEPT ![m] = 0]
    /\ inWindow' = [inWindow EXCEPT ![m] = FALSE]
    /\ out' = [out EXCEPT ![m] = NoOut]
    /\ msg' = [msg EXCEPT ![m] = NoMsg]
    /\ thr' = Reachable(thr, thrRef', timers)
    /\ UNCHANGED <<cmd, scn, provided, loc, awaiting, throttles, timers, ctorVars>>

\* no settled run is waiting to be dropped
Quiet == \A m \in Msgs : pc[m] \notin Ended

\* ------------------------------------------------------------------------
\* Actions of a collector constructor call
\* ------------------------------------------------------------------------
CtorEnter ==
    /\ ctorSt.state = "new"
    /\ ctorSt' = CtorStart(ctorIn)
    /\ UNCHANGED <<cmd, scn, runVars, ctorIn>>

CtorLoopStep ==
    /\ ctorSt.state = "loop"
    /\ ctorSt.i < Len(ctorIn.args)
    /\ ctorSt' = CtorIterate(ctorIn.args, ctorSt)
    /\ UNCHANGED <<cmd, scn, runVars, ctorIn>>

CtorFinish ==
    /\ ctorSt.state = "loop"
    /\ ctorSt.i >= Len(ctorIn.args)
    /\ ctorSt' = CtorIterate(ctorIn.args, ctorSt)
    /\ UNCHANGED <<cmd, scn, runVars, ctorIn>>

\* ------------------------------------------------------------------------
\* Enabled state of a command and its group
\* ------------------------------------------------------------------------
Guilds == {"g1", "g2"}
UNSET == "unset"        \* typeof this._commandsEnabled[name] === 'undefined'
Overrides == {UNSET, "true", "false"}

\* no call was made yet
NoCall == [op |-> NULL, guild |-> NULL, err |-> NULL, emitted |-> FALSE]

\* a call, the error it threw (NULL for none) and whether it emitted
\* commandStatusChange or groupStatusChange
Call(op, guild, err, emitted) ==
    [op |-> op, guild |-> guild, err |-> err, emitted |-> emitted]

\* the command, its group and the guilds after construction
EnableState(cmdGuarded, grpGuarded, guildOnly) ==
    [cmdGuarded |-> cmdGuarded, grpGuarded |-> grpGuarded, guildOnly |-> guildOnly,
     cmdGlobal |-> TRUE, grpGlobal |-> TRUE,
     cmdOv |-> [g \in Guilds |-> UNSET], grpOv |-> [g \in Guilds |-> UNSET],
     last |-> NoCall]

\* GuildExtension.isCommandEnabled
IsCommandEnabled(s, g) ==
    IF s.cmdGuarded THEN TRUE
    ELSE IF s.cmdOv[g] = UNSET THEN s.cmdGlobal
    ELSE s.cmdOv[g] = "true"

\* GuildExtension.isGroupEnabled
IsGroupEnabled(s, g) ==
    IF s.grpGuarded THEN TRUE
    ELSE IF s.grpOv[g] = UNSET THEN s.grpGlobal
    ELSE s.grpOv[g] = "true"

\* isEnabledIn that leaves the group out
IsEnabledInNoGroup(s, guild) ==
    IF s.cmdGuarded THEN TRUE
    ELSE IF guild = NULL THEN s.cmdGlobal
    ELSE IsCommandEnabled(s, guild)

\* BaseCommand.isEnabledIn; guild is NULL for no guild
IsEnabledIn(s, guild) ==
    IF s.cmdGuarded THEN TRUE
    ELSE IF guild = NULL THEN s.grpGlobal /\ s.cmdGlobal
    ELSE IsGroupEnabled(s, guild) /\ IsCommandEnabled(s, guild)

\* BaseCommandGroup.isEnabledIn
GroupIsEnabledIn(s, guild) ==
    IF s.grpGuarded THEN TRUE
    ELSE IF guild = NULL THEN s.grpGlobal
    ELSE IsGroupEnabled(s, guild)

\* what hasPermission returns: true, false, a reason, or the empty string
HasPermissionValues == Permissions \cup {""}

\* the message given to isUsable: none, or its guild (NULL outside a guild) and
\* what hasPermission returns for it
NoContext == [given |-> FALSE, guild |-> NULL, perm |-> "true"]
Contexts == {[given |-> TRUE, guild |-> g, perm |-> p] :
                g \in Guilds \cup {NULL}, p \in HasPermissionValues}

\* a boolean as a JavaScript value, and whether a value is truthy
JsBool(b) == IF b THEN "true" ELSE "false"
Truthy(v) == v \notin {"false", ""}
IsString(v) == v \notin {"true", "false"}

\* a && b && c
AndAnd(a, b, c) == IF ~Truthy(a) THEN a ELSE IF ~Truthy(b) THEN b ELSE c

\* isUsable that skips the guild-only test
IsUsableAnywhere(s, ctx) ==
    IF ~ctx.given THEN JsBool(s.cmdGlobal)
    ELSE AndAnd(JsBool(IsEnabledIn(s, ctx.guild)), ctx.perm, JsBool(~IsString(ctx.perm)))

\* BaseCommand.isUsable: the value it returns
IsUsable(s, ctx) ==
    IF ~ctx.given THEN JsBool(s.cmdGlobal)
    ELSE IF s.guildOnly /\ ctx.guild = NULL THEN "false"
    ELSE AndAnd(JsBool(IsEnabledIn(s, ctx.guild)), ctx.perm, JsBool(~IsString(ctx.perm)))

\* the values given for enabled and for guild: a boolean or undefined; a
\* guild, null or undefined
EnabledArgs == {"true", "false", OMITTED_}
GuildArgs == Guilds \cup {NULL, OMITTED_}

\* setCommandEnabled that writes the status into every guild
GuildSetCommandEnabledEverywhere(s, op, g, enabled) ==
    IF s.cmdGuarded
    THEN [s EXCEPT !.last = Call(op, g, "The command is guarded.", FALSE)]
    ELSE IF enabled = OMITTED_
    THEN [s EXCEPT !.last = Call(op, g, "TypeError", FALSE)]
    ELSE [s EXCEPT !.cmdOv = [h \in Guilds |-> enabled], !.last = Call(op, g, NULL, TRUE)]

\* GuildExtension.setCommandEnabled
GuildSetCommandEnabled(s, op, g, enabled) ==
    IF s.cmdGuarded
    THEN [s EXCEPT !.last = Call(op, g, "The command is guarded.", FALSE)]
    ELSE IF enabled = OMITTED_
    THEN [s EXCEPT !.last = Call(op, g, "TypeError", FALSE)]
    ELSE [s EXCEPT !.cmdOv[g] = enabled, !.last = Call(op, g, NULL, TRUE)]

\* GuildExtension.setGroupEnabled
GuildSetGroupEnabled(s, op, g, enabled) ==
    IF s.grpGuarded
    THEN [s EXCEPT !.last = Call(op, g, "The group is guarded.", FALSE)]
    ELSE IF enabled = OMITTED_
    THEN [s EXCEPT !.last = Call(op, g, "TypeError", FALSE)]
    ELSE [s EXCEPT !.grpOv[g] = enabled, !.last = Call(op, g, NULL, TRUE)]

\* setEnabledIn that tests guarded only on the way to a guild
CommandSetEnabledInGlobalFirst(s, guild, enabled) ==
    LET op == "command.setEnabledIn" IN
    IF guild = OMITTED_ \/ enabled = OMITTED_
    THEN [s EXCEPT !.last = Call(op, guild, "TypeError", FALSE)]
    ELSE IF guild = NULL
    THEN [s EXCEPT !.cmdGlobal = (enabled = "true"),
                   !.last = Call(op, guild, NULL, TRUE)]
    ELSE GuildSetCommandEnabled(s, op, guild, enabled)

\* BaseCommand.setEnabledIn
CommandSetEnabledIn(s, guild, enabled) ==
    LET op == "command.setEnabledIn" IN
    IF guild = OMITTED_ \/ enabled = OMITTED_
    THEN [s EXCEPT !.last = Call(op, guild, "TypeError", FALSE)]
    ELSE IF s.cmdGuarded
    THEN [s EXCEPT !.last = Call(op, guild, "The command is guarded.", FALSE)]
    ELSE IF guild = NULL
    THEN [s EXCEPT !.cmdGlobal = (enabled = "true"),
                   !.last = Call(op, guild, NULL, TRUE)]
    ELSE GuildSetCommandEnabled(s, op, guild, enabled)

\* BaseCommandGroup.setEnabledIn
GroupSetEnabledIn(s, guild, enabled) ==
    LET op == "group.setEnabledIn" IN
    IF guild = OMITTED_ \/ enabled = OMITTED_
    THEN [s EXCEPT !.last = Call(op, guild, "TypeError", FALSE)]
    ELSE IF s.grpGuarded
    THEN [s EXCEPT !.last = Call(op, guild, "The group is guarded.", FALSE)]
    ELSE IF guild = NULL
    THEN [s EXCEPT !.grpGlobal = (enabled = "true"),
                   !.last = Call(op, guild, NULL, TRUE)]
    ELSE GuildSetGroupEnabled(s, op, guild, enabled)

\* SequelizeProvider.setupGuildCommand; setting is UNSET when the settings
\* have no entry for the command
SetupGuildCommand(s, guild, setting) ==
    IF setting = UNSET THEN s
    ELSE IF guild # NULL THEN [s EXCEPT !.cmdOv[guild] = setting]
    ELSE [s EXCEPT !.cmdGlobal = (setting = "true")]

\* SequelizeProvider.setupGuildGroup
SetupGuildGroup(s, guild, setting) ==
    IF setting = UNSET THEN s
    ELSE IF guild # NULL THEN [s EXCEPT !.grpOv[guild] = setting]
    ELSE [s EXCEPT !.grpGlobal = (setting = "true")]

\* SequelizeProvider.setupGuild for the settings of one guild or the global ones
SetupGuild(s, guild, cmdSetting, grpSetting) ==
    [SetupGuildGroup(SetupGuildCommand(s, guild, cmdSetting), guild, grpSetting)
        EXCEPT !.last = Call("provider.setupGuild", guild, NULL, FALSE)]

otherVars == <<cmd, scn, runVars, ctorVars, recent, reg, num, prov>>

CommandSetEnabled ==
    /\ \E guild \in GuildArgs, enabled \in EnabledArgs :
          en' = CommandSetEnabledIn(en, guild, enabled)
    /\ UNCHANGED otherVars

GroupSetEnabled ==
    /\ \E guild \in GuildArgs, enabled \in EnabledArgs :
          en' = GroupSetEnabledIn(en, guild, enabled)
    /\ UNCHANGED otherVars

GuildCommandSetEnabled ==
    /\ \E g \in Guilds, enabled \in EnabledArgs :
          en' = GuildSetCommandEnabled(en, "guild.setCommandEnabled", g, enabled)
    /\ UNCHANGED otherVars

GuildGroupSetEnabled ==
    /\ \E g \in Guilds, enabled \in EnabledArgs :
          en' = GuildSetGroupEnabled(en, "guild.setGroupEnabled", g, enabled)
    /\ UNCHANGED otherVars

ProviderSetupGuild ==
    /\ \E guild \in Guilds \cup {NULL}, c \in Overrides, g \in Overrides :
          en' = SetupGuild(en, guild, c, g)
    /\ UNCHANGED otherVars


\* a second command of the same group, under another name: its guarded flag,
\* its _globalEnabled and its entries in the guilds' _commandsEnabled
WithOther(s, guarded) ==
    [cmdGuarded |-> s.cmdGuarded, grpGuarded |-> s.grpGuarded, guildOnly |-> s.guildOnly,
     cmdGlobal |-> s.cmdGlobal, grpGlobal |-> s.grpGlobal,
     cmdOv |-> s.cmdOv, grpOv |-> s.grpOv, last |-> s.last,
     otherGuarded |-> guarded, otherGlobal |-> TRUE,
     otherOv |-> [g \in Guilds |-> UNSET]]

\* the same state seen from the second command
AsOther(s) ==
    [s EXCEPT !.cmdGuarded = s.otherGuarded, !.cmdGlobal = s.otherGlobal,
              !.cmdOv = s.otherOv,
              !.otherGuarded = s.cmdGuarded, !.otherGlobal = s.cmdGlobal,
              !.otherOv = s.cmdOv]

\* BaseCommand.setEnabledIn called on the second command
OtherSetEnabledIn(s, guild, enabled) ==
    LET t == AsOther(CommandSetEnabledIn(AsOther(s), guild, enabled)) IN
    [t EXCEPT !.last.op = "other.setEnabledIn"]

OtherSetEnabled ==
    /\ \E guild \in GuildArgs, enabled \in EnabledArgs :
          en' = OtherSetEnabledIn(en, guild, enabled)
    /\ UNCHANGED otherVars

InitNoEnable == en = EnableState(FALSE, FALSE, FALSE)

\* ------------------------------------------------------------------------
\* The command registry
\* ------------------------------------------------------------------------
\* strings are sequences of characters
LowerChar(c) == IF c = "F" THEN "f" ELSE IF c = "U" THEN "u" ELSE c

\* String.prototype.toLowerCase
Lower(s) == [i \in 1..Len(s) |-> LowerChar(s[i])]

\* String.prototype.includes
Includes(s, sub) ==
    \E i \in 0..(Len(s) - Len(sub)) : SubSeq(s, i + 1, i + Len(sub)) = sub

\* Array.prototype.includes / some(x => x === v)
Has(seq, v) == \E i \in 1..Len(seq) : seq[i] = v

\* the command objects: name, aliases, groupID, memberName
CommandObj(name, aliases, groupID, memberName) ==
    [name |-> name, aliases |-> aliases, groupID |-> groupID, memberName |-> memberName]

CommandObjs ==
    <<CommandObj(<<"f","o","o">>, << <<"f">> >>, <<"g">>, <<"f","o","o">>),
      CommandObj(<<"b","a","r">>, << >>, <<"g">>, <<"b","a","r">>),
      CommandObj(<<"b","a","r">>, << <<"f">> >>, <<"g">>, <<"b","a","r">>),
      CommandObj(<<"f">>, << >>, <<"h">>, <<"f">>),
      CommandObj(<<"f","o">>, << >>, <<"g">>, <<"f","o","o">>)>>

CommandIds == DOMAIN CommandObjs

\* the group objects: id and the name they are constructed with
GroupObj(id, name) == [id |-> id, name |-> name]

GroupObjs ==
    <<GroupObj(<<"g">>, <<"U","t">>),
      GroupObj(<<"g">>, <<"F","o">>),
      GroupObj(<<"h">>, <<"U","t">>)>>

GroupIds == DOMAIN GroupObjs

\* `${cmd.groupID}:${cmd.memberName}`
Composite(c) == CommandObjs[c].groupID \o <<":">> \o CommandObjs[c].memberName

\* the registry of a new client
EmptyRegistry ==
    [commands |-> << >>, groups |-> << >>,
     gname |-> [g \in GroupIds |-> GroupObjs[g].name],
     gcmds |-> [g \in GroupIds |-> << >>],
     cgroup |-> [c \in CommandIds |-> 0],
     last |-> [op |-> NULL, err |-> NULL]]

\* Collection.set(command.name, command): a key that is present keeps its place
CommandsSet(seq, c) ==
    IF \E i \in 1..Len(seq) : CommandObjs[seq[i]].name = CommandObjs[c].name
    THEN [i \in 1..Len(seq) |->
            IF CommandObjs[seq[i]].name = CommandObjs[c].name THEN c ELSE seq[i]]
    ELSE Append(seq, c)

\* Collection.delete(name)
CommandsDelete(seq, name) == SelectSeq(seq, LAMBDA c : CommandObjs[c].name # name)

\* a command of seq has the string as its name or as an alias
NameOrAliasTaken(seq, str) ==
    \E i \in 1..Len(seq) :
        CommandObjs[seq[i]].name = str \/ Has(CommandObjs[seq[i]].aliases, str)

\* groupFilterExact and groupFilterInexact
GroupFilterExact(r, g, search) ==
    GroupObjs[g].id = search \/ Lower(r.gname[g]) = search

GroupFilterInexact(r, g, search) ==
    Includes(GroupObjs[g].id, search) \/ Includes(Lower(r.gname[g]), search)

\* commandFilterExact and commandFilterInexact
CommandFilterExact(c, search) ==
    \/ CommandObjs[c].name = search
    \/ Has(CommandObjs[c].aliases, search)
    \/ Composite(c) = search

CommandFilterInexact(c, search) ==
    \/ Includes(CommandObjs[c].name, search)
    \/ Composite(c) = search
    \/ \E i \in 1..Len(CommandObjs[c].aliases) : Includes(CommandObjs[c].aliases[i], search)

\* the first element of seq that satisfies Test, as a sequence of at most one
First(seq, Test(_)) ==
    LET hits == SelectSeq(seq, Test) IN IF hits = << >> THEN << >> ELSE <<hits[1]>>

\* CommandRegistry.findGroups
FindGroups(r, searchString, exact) ==
    IF searchString = << >> THEN r.groups
    ELSE LET lcSearch == Lower(searchString)
             matchedGroups ==
                 IF exact
                 THEN SelectSeq(r.groups, LAMBDA g : GroupFilterExact(r, g, lcSearch))
                 ELSE SelectSeq(r.groups, LAMBDA g : GroupFilterInexact(r, g, lcSearch))
             full == First(matchedGroups,
                           LAMBDA g : Lower(r.gname[g]) = lcSearch \/ GroupObjs[g].id = lcSearch)
         IN IF exact THEN matchedGroups
            ELSE IF full # << >> THEN full
            ELSE matchedGroups

\* CommandRegistry.findCommands without a message
FindCommands(r, searchString, exact) ==
    IF searchString = << >> THEN r.commands
    ELSE LET lcSearch == Lower(searchString)
             matchedCommands ==
                 IF exact
                 THEN SelectSeq(r.commands, LAMBDA c : CommandFilterExact(c, lcSearch))
                 ELSE SelectSeq(r.commands, LAMBDA c : CommandFilterInexact(c, lcSearch))
             full == First(matchedCommands,
                           LAMBDA c : \/ CommandObjs[c].name = lcSearch
                                      \/ Has(CommandObjs[c].aliases, lcSearch))
         IN IF exact THEN matchedCommands
            ELSE IF full # << >> THEN full
            ELSE matchedCommands

\* what resolveCommand and resolveGroup are given: an object of the class, a
\* string, a command message (with the command it holds), or something else
Resolvable(kind, val) == [kind |-> kind, val |-> val]

\* what they do: return an object (0 is null) or throw
Returned(val) == [threw |-> FALSE, val |-> val]
Unable == [threw |-> TRUE, val |-> 0]

\* CommandRegistry.resolveGroup
ResolveGroup(r, group) ==
    IF group.kind = "group" THEN Returned(group.val)
    ELSE IF group.kind = "string" /\ group.val # << >>
            /\ Len(FindGroups(r, group.val, TRUE)) = 1
    THEN Returned(FindGroups(r, group.val, TRUE)[1])
    ELSE Unable

\* resolveCommand that takes the first of several matches
ResolveCommandFirst(r, command) ==
    IF command.kind = "command" THEN Returned(command.val)
    ELSE IF command.kind = "message" THEN Returned(command.val)
    ELSE IF command.kind = "string" /\ command.val # << >>
            /\ Len(FindCommands(r, command.val, TRUE)) >= 1
    THEN Returned(FindCommands(r, command.val, TRUE)[1])
    ELSE Unable

\* CommandRegistry.resolveCommand
ResolveCommand(r, command) ==
    IF command.kind = "command" THEN Returned(command.val)
    ELSE IF command.kind = "message" THEN Returned(command.val)
    ELSE IF command.kind = "string" /\ command.val # << >>
            /\ Len(FindCommands(r, command.val, TRUE)) = 1
    THEN Returned(FindCommands(r, command.val, TRUE)[1])
    ELSE Unable

\* a call and the error it threw, NULL for none
Done(r, op) == [r EXCEPT !.last = [op |-> op, err |-> NULL]]
Fail(r, op, err) == [r EXCEPT !.last = [op |-> op, err |-> err]]

\* registerGroups that puts the new object in the place of the existing one
RegisterGroupReplaces(r, g) ==
    IF \E i \in 1..Len(r.groups) : GroupObjs[r.groups[i]].id = GroupObjs[g].id
    THEN [r EXCEPT !.groups = [i \in 1..Len(r.groups) |->
                                 IF GroupObjs[r.groups[i]].id = GroupObjs[g].id
                                 THEN g ELSE r.groups[i]]]
    ELSE [r EXCEPT !.groups = Append(@, g)]

\* one turn of the loop of registerGroups, for group object g
RegisterGroup(r, g) ==
    IF \E i \in 1..Len(r.groups) : GroupObjs[r.groups[i]].id = GroupObjs[g].id
    THEN LET existing == CHOOSE e \in GroupIds :
                            Has(r.groups, e) /\ GroupObjs[e].id = GroupObjs[g].id
         IN [r EXCEPT !.gname[existing] = r.gname[g]]
    ELSE [r EXCEPT !.groups = Append(@, g)]

\* CommandRegistry.registerGroups
RECURSIVE RegisterGroups(_, _)
RegisterGroups(r, groups) ==
    IF groups = << >> THEN Done(r, "registerGroups")
    ELSE RegisterGroups(RegisterGroup(r, Head(groups)), Tail(groups))

\* CommandRegistry.registerCommands: an error leaves the commands before it
\* registered
RECURSIVE RegisterCommands(_, _)
RegisterCommands(r, commands) ==
    IF commands = << >> THEN Done(r, "registerCommands")
    ELSE LET c == Head(commands)
             o == CommandObjs[c]
             grp == SelectSeq(r.groups, LAMBDA g : GroupObjs[g].id = o.groupID)
         IN IF NameOrAliasTaken(r.commands, o.name)
            THEN Fail(r, "registerCommands", "name")
            ELSE IF \E i \in 1..Len(o.aliases) : NameOrAliasTaken(r.commands, o.aliases[i])
            THEN Fail(r, "registerCommands", "alias")
            ELSE IF grp = << >> THEN Fail(r, "registerCommands", "group")
            ELSE IF \E i \in 1..Len(r.gcmds[grp[1]]) :
                        CommandObjs[r.gcmds[grp[1]][i]].memberName = o.memberName
            THEN Fail(r, "registerCommands", "memberName")
            ELSE RegisterCommands(
                    [r EXCEPT !.cgroup[c] = grp[1],
                              !.gcmds[grp[1]] = CommandsSet(@, c),
                              !.commands = CommandsSet(@, c)],
                    Tail(commands))

\* CommandRegistry.reregisterCommand
ReregisterCommand(r, command, oldCommand) ==
    LET n == CommandObjs[command]
        o == CommandObjs[oldCommand]
        grp == ResolveGroup(r, Resolvable("string", n.groupID))
    IN IF n.name # o.name THEN Fail(r, "reregisterCommand", "name")
       ELSE IF n.groupID # o.groupID THEN Fail(r, "reregisterCommand", "group")
       ELSE IF n.memberName # o.memberName THEN Fail(r, "reregisterCommand", "memberName")
       ELSE IF grp.threw THEN Fail(r, "reregisterCommand", "Unable to resolve group.")
       ELSE Done([r EXCEPT !.cgroup[command] = grp.val,
                           !.gcmds[grp.val] = CommandsSet(@, command),
                           !.commands = CommandsSet(@, command)],
                 "reregisterCommand")

\* CommandRegistry.unregisterCommand: command.group is undefined for a command
\* that was never registered
UnregisterCommand(r, command) ==
    LET r1 == [r EXCEPT !.commands = CommandsDelete(@, CommandObjs[command].name)] IN
    IF r.cgroup[command] = 0 THEN Fail(r1, "unregisterCommand", "TypeError")
    ELSE Done([r1 EXCEPT !.gcmds[r.cgroup[command]] =
                            CommandsDelete(@, CommandObjs[command].name)],
              "unregisterCommand")

\* the arrays given to registerGroups and registerCommands
Batches(S) == {<<a>> : a \in S} \cup {<<a, b>> : a \in S, b \in S}

registryOtherVars == <<cmd, scn, runVars, ctorVars, en, recent, num, prov>>

DoRegisterGroups ==
    /\ \E groups \in Batches(GroupIds) : reg' = RegisterGroups(reg, groups)
    /\ UNCHANGED registryOtherVars

DoRegisterCommands ==
    /\ \E commands \in Batches(CommandIds) : reg' = RegisterCommands(reg, commands)
    /\ UNCHANGED registryOtherVars

DoReregisterCommand ==
    /\ \E command \in CommandIds, oldCommand \in CommandIds :
          reg' = ReregisterCommand(reg, command, oldCommand)
    /\ UNCHANGED registryOtherVars

DoUnregisterCommand ==
    /\ \E command \in CommandIds : reg' = UnregisterCommand(reg, command)
    /\ UNCHANGED registryOtherVars

InitNoRegistry == reg = EmptyRegistry

\* ------------------------------------------------------------------------
\* Integer arguments
\* ------------------------------------------------------------------------
NoNumber == [stage |-> "none"]

InitNoNumber == num = NoNumber

\* a number, or NaN
Number(n) == [nan |-> FALSE, n |-> n]
NaN == [nan |-> TRUE, n |-> 0]

Digits == {"0", "1", "5"}
DigitValue(c) == IF c = "0" THEN 0 ELSE IF c = "1" THEN 1 ELSE 5

\* the digits a string of characters starts with
RECURSIVE LeadingDigits(_)
LeadingDigits(s) ==
    IF s = << >> \/ Head(s) \notin Digits THEN << >>
    ELSE <<Head(s)>> \o LeadingDigits(Tail(s))

\* the number written by a sequence of digits
RECURSIVE Decimal(_)
Decimal(d) ==
    IF d = << >> THEN 0
    ELSE 10 * Decimal(SubSeq(d, 1, Len(d) - 1)) + DigitValue(d[Len(d)])

\* Number.parseInt(value): white space, a sign, then digits up to the first
\* character that is none; NaN without a digit
RECURSIVE ParseInt(_)
ParseInt(s) ==
    IF s # << >> /\ Head(s) = " " THEN ParseInt(Tail(s))
    ELSE LET signed == s # << >> /\ Head(s) \in {"-", "+"}
             d == LeadingDigits(IF signed THEN Tail(s) ELSE s)
         IN IF d = << >> THEN NaN
            ELSE IF signed /\ Head(s) = "-" THEN Number(0 - Decimal(d))
            ELSE Number(Decimal(d))

\* info.min and info.max: a number, or not given
Given(n) == [given |-> TRUE, n |-> n]
NotGiven == [given |-> FALSE, n |-> 0]

\* info.max || null, info.min || null
OrNull(b) == IF b.given /\ b.n # 0 THEN b ELSE NotGiven

\* IntegerArgumentType.validate for an argument with these min and max
IntegerValidate(value, min, max) ==
    LET int == ParseInt(value) IN
    /\ ~int.nan
    /\ ~min.given \/ int.n >= min.n
    /\ ~max.given \/ int.n <= max.n

\* IntegerArgumentType.parse
IntegerParse(value) == ParseInt(value)

\* the values of info.min and info.max, and the strings validated
InfoBounds == {NotGiven} \cup {Given(n) : n \in {0 - 5, 0, 1, 10}}

IntegerInputs ==
    {<<"5">>, <<"5","0">>, <<"-","5">>, <<"0">>, <<"1">>, <<"1","0">>, <<"1","1">>,
     <<"-","1">>, <<"x">>, <<"5","x">>, <<" ","5">>, <<"-">>, << >>}

numOtherVars == <<cmd, scn, runVars, ctorVars, en, recent, reg, prov>>

\* BaseArgument.constructor: this.max = info.max || null, this.min likewise
IntegerConstruct ==
    /\ num.stage = "new"
    /\ num' = [num EXCEPT !.stage = "built",
                          !.min = OrNull(num.infoMin), !.max = OrNull(num.infoMax)]
    /\ UNCHANGED numOtherVars

\* BaseArgument.validate -> type.validate(value, msg, this)
IntegerValidated ==
    /\ num.stage \in {"built", "validated", "parsed"}
    /\ \E value \in IntegerInputs :
          num' = [num EXCEPT !.stage = "validated", !.value = value,
                             !.valid = IntegerValidate(value, num.min, num.max),
                             !.parsed = NaN]
    /\ UNCHANGED numOtherVars

\* StringArgumentType.validate for an argument with these min and max
StringValidate(value, min, max) ==
    /\ value # << >>
    /\ ~min.given \/ Len(value) >= min.n
    /\ ~max.given \/ Len(value) <= max.n

\* StringArgumentType.parse
StringParse(value) == value

\* the values of info.min and info.max of a string argument, and the strings
\* validated
StringBounds == {NotGiven} \cup {Given(n) : n \in 0..2}
StringInputs == {<< >>, <<"a">>, <<"a", "b">>, <<"a", "b", "c">>, <<" ">>, <<"0">>}

\* BaseArgument.validate -> type.validate(value, msg, this), type string
StringValidated ==
    /\ num.stage \in {"built", "validated", "parsed"}
    /\ \E value \in StringInputs :
          num' = [num EXCEPT !.stage = "validated", !.value = value,
                             !.valid = StringValidate(value, num.min, num.max),
                             !.parsed = << >>]
    /\ UNCHANGED numOtherVars

\* BaseArgument.parse -> type.parse(value), type string
StringParsed ==
    /\ num.stage = "validated"
    /\ num.valid
    /\ num' = [num EXCEPT !.stage = "parsed", !.parsed = StringParse(num.value)]
    /\ UNCHANGED numOtherVars

\* BaseArgument.parse -> type.parse(value), after validate returned true
IntegerParsed ==
    /\ num.stage = "validated"
    /\ num.valid
    /\ num' = [num EXCEPT !.stage = "parsed", !.parsed = IntegerParse(num.value)]
    /\ UNCHANGED numOtherVars

\* ------------------------------------------------------------------------
\* SequelizeProvider: init, destroy and the listeners
\* ------------------------------------------------------------------------
NoProvider == [stage |-> "none"]

InitNoProvider == prov = NoProvider

\* the events init sets listeners for, in the order of _listeners.set
ProviderEvents ==
    <<"commandPrefixChange", "commandStatusChange", "groupStatusChange",
      "guildCreate", "commandRegister", "groupRegister">>

\* a provider after construction: this.client is null unless the application
\* assigns it (init does not); storedRow tells whether the table holds a row
\* of global settings
NewProvider(clientAssigned, storedRow) ==
    [stage |-> "new", client |-> clientAssigned, storedRow |-> storedRow,
     listeners |-> << >>, subscribed |-> {},
     settings |-> [prefix |-> UNSET, cmd |-> UNSET, grp |-> UNSET],
     reachedAfter |-> {}]

\* SequelizeProvider.init: a stored row is put in _settings and set up, which
\* reads this.client.guilds; then the listeners are put in _listeners and
\* each is subscribed with this.client.on
ProviderInit(p) ==
    LET p1 == IF p.storedRow THEN [p EXCEPT !.settings.prefix = "!"] ELSE p
        p2 == [p1 EXCEPT !.listeners = ProviderEvents]
    IN IF p.storedRow /\ ~p.client THEN [p1 EXCEPT !.stage = "initThrew"]
       ELSE IF ~p.client THEN [p2 EXCEPT !.stage = "initThrew"]
       ELSE [p2 EXCEPT !.stage = "ready",
                       !.subscribed = {ProviderEvents[i] : i \in 1..Len(ProviderEvents)}]

\* SequelizeProvider.destroy: the first turn of the loop over _listeners
\* removes that listener and clears _listeners, which ends the loop
ProviderDestroy(p) ==
    IF p.listeners = << >> THEN [p EXCEPT !.stage = "destroyed"]
    ELSE IF ~p.client THEN [p EXCEPT !.stage = "destroyThrew"]
    ELSE [p EXCEPT !.subscribed = @ \ {Head(p.listeners)},
                   !.listeners = << >>,
                   !.stage = "destroyed"]

\* the listener of event e runs with value v: the three change listeners
\* call this.set(guild, key, v), the others set guilds, commands or groups up
ProviderListener(p, e, v) ==
    LET q == [p EXCEPT !.reachedAfter =
                          IF p.stage = "destroyed" THEN @ \cup {e} ELSE @] IN
    IF e = "commandPrefixChange" THEN [q EXCEPT !.settings.prefix = v]
    ELSE IF e = "commandStatusChange" THEN [q EXCEPT !.settings.cmd = v]
    ELSE IF e = "groupStatusChange" THEN [q EXCEPT !.settings.grp = v]
    ELSE q

\* the values the events carry: a prefix, or whether enabled
EventValues(e) == IF e = "commandPrefixChange" THEN {"!", "?"} ELSE {"true", "false"}

provOtherVars == <<cmd, scn, runVars, ctorVars, en, recent, reg, num>>

DoProviderInit ==
    /\ prov.stage = "new"
    /\ prov' = ProviderInit(prov)
    /\ UNCHANGED provOtherVars

DoProviderDestroy ==
    /\ prov.stage \in {"new", "ready", "initThrew"}
    /\ prov' = ProviderDestroy(prov)
    /\ UNCHANGED provOtherVars

\* the client emits an event: the provider's listener runs if subscribed
ClientEmits ==
    /\ \E i \in 1..Len(ProviderEvents) :
          /\ ProviderEvents[i] \in prov.subscribed
          /\ \E v \in EventValues(ProviderEvents[i]) :
                prov' = ProviderListener(prov, ProviderEvents[i], v)
    /\ UNCHANGED provOtherVars

\* ------------------------------------------------------------------------
\* Commands and environments of the behaviours
\* ------------------------------------------------------------------------
Info(key, dflt, infinite, wait) ==
    [key |-> key, dflt |-> dflt, infinite |-> infinite, wait |-> wait, valid |-> TRUE]

\* the collectors the constructor builds from the given calls
Collectors(calls) ==
    {[args |-> Construct(in).args, promptLimit |-> Construct(in).promptLimit] :
        in \in {c \in calls : Construct(c).state = "ok"}}

NoCollector == [args |-> << >>, promptLimit |-> 0]

\* BaseCommand.constructor: throttling is null or {usages, duration}, with
\* usages >= 1 and duration >= 1; argsCollector is null when info.args is undefined
Command(guildOnly, throttled, usages, duration, hasCollector, collector) ==
    [guildOnly |-> guildOnly, throttled |-> throttled, usages |-> usages,
     duration |-> duration, hasCollector |-> hasCollector, collector |-> collector]

Scenario(msgs, users, channels, patterns, raws, replies, maxProvided) ==
    [msgs |-> msgs, users |-> users, channels |-> channels, patterns |-> patterns,
     raws |-> raws, replies |-> replies, maxProvided |-> maxProvided]

InitRuns ==
    /\ pc = [m \in Msgs |-> "new"]
    /\ msg = [m \in Msgs |-> NoMsg]
    /\ provided = [m \in Msgs |-> << >>]
    /\ loc = [m \in Msgs |-> NewLocals]
    /\ thrRef = [m \in Msgs |-> 0]
    /\ awaiting = {}
    /\ thr = [m \in Msgs |-> NoThrottle]
    /\ throttles = [u \in Users |-> 0]
    /\ timers = {}
    /\ bodyCalls = [m \in Msgs |-> 0]
    /\ collResult = [m \in Msgs |-> NoResult]
    /\ blockReason = [m \in Msgs |-> NULL]
    /\ remaining = [m \in Msgs |-> 0]
    /\ prevRuns = [m \in Msgs |-> 0]
    /\ inWindow = [m \in Msgs |-> FALSE]
    /\ out = [m \in Msgs |-> NoOut]
    /\ recent = [u \in Users |-> << >>]

InitNoCtor ==
    /\ ctorIn = CtorCall(FALSE, << >>, FALSE, 0)
    /\ ctorSt = CtorIdle
    /\ InitNoEnable
    /\ InitNoRegistry
    /\ InitNoNumber
    /\ InitNoProvider

\* the collector of a command with the given args and argsPromptLimit
CollectorOf(args, limit) ==
    CHOOSE c \in Collectors({CtorCall(TRUE, args, TRUE, limit)}) : TRUE

\* command messages handled concurrently: a guild-only throttled command with
\* one required argument, a command whose args is the empty list, and a
\* throttled command without args
DispatchCommands ==
    {Command(TRUE, TRUE, 1, 1, TRUE,
             CollectorOf(<<Info("k1", OMITTED_, FALSE, 1)>>, 1)),
     Command(FALSE, FALSE, 1, 1, TRUE, CollectorOf(<< >>, 1)),
     Command(FALSE, TRUE, 1, 1, FALSE, NoCollector)}

Init ==
    /\ scn = Scenario(MaxMsgs, {"u1"}, Channels, {FALSE, TRUE}, {"good"},
                      {"good", "boom", "cancel"}, 1)
    /\ cmd \in DispatchCommands
    /\ InitRuns
    /\ InitNoCtor

Run(m) ==
    \/ Receive(m)
    \/ FetchDone(m)
    \/ FetchFail(m)
    \/ PromptSent(m)
    \/ PromptFail(m)
    \/ Reply(m)
    \/ Timeout(m)
    \/ BodyDone(m)

Next ==
    /\ \/ \E m \in Msgs : Retire(m)
       \/ Quiet /\ \E m \in Msgs : Run(m)
       \/ Quiet /\ \E id \in Msgs : ExpireThrottle(id)
       \/ Quiet /\ Tick
    /\ UNCHANGED <<en, recent, reg, num, prov>>

Spec == Init /\ [][Next]_vars

\* command messages handled one after the other: a run starts when no other
\* run is in progress
SeqCommands ==
    {Command(FALSE, TRUE, u, 2, c # NoCollector, c) :
        u \in {1, 2},
        c \in {NoCollector, CollectorOf(<<Info("k1", OMITTED_, FALSE, 1)>>, 1)}}

InitSeq ==
    /\ scn = Scenario(MaxSeqMsgs, Users, Channels, {FALSE}, {"good"},
                      {"good", "cancel"}, 1)
    /\ cmd \in SeqCommands
    /\ InitRuns
    /\ InitNoCtor

Idle == \A m \in Msgs : pc[m] \in {"new", "done"}

RunSeq(m) ==
    \/ Idle /\ Receive(m)
    \/ FetchDone(m)
    \/ FetchFail(m)
    \/ PromptSent(m)
    \/ PromptFail(m)
    \/ Reply(m)
    \/ Timeout(m)
    \/ BodyDone(m)

\* the calls of command.run less than the duration ago, one unit of time later
Older(ages) ==
    SelectSeq([i \in 1..Len(ages) |-> ages[i] + 1], LAMBDA a : a < cmd.duration)

\* the step of the run of message m called command.run
CallsBody(m) == bodyCalls'[m] > bodyCalls[m]

\* the calls of command.run for each user, after a step of the run of message m
Noted(m) ==
    [u \in Users |->
        IF CallsBody(m) /\ msg'[m].author = u
        THEN Append(recent[u], 0) ELSE recent[u]]

SeqRetire == (\E m \in Msgs : Retire(m)) /\ UNCHANGED <<recent, en, reg, num, prov>>

SeqRun == Quiet /\ (\E m \in Msgs : RunSeq(m) /\ recent' = Noted(m)) /\ UNCHANGED <<en, reg, num, prov>>

SeqExpire == Quiet /\ (\E id \in Msgs : ExpireThrottle(id)) /\ UNCHANGED <<recent, en, reg, num, prov>>

SeqTick == Quiet /\ Tick /\ recent' = [u \in Users |-> Older(recent[u])] /\ UNCHANGED <<en, reg, num, prov>>

NextSeq ==
    \/ SeqRetire
    \/ SeqRun
    \/ SeqExpire
    \/ SeqTick

SpecSeq == InitSeq /\ [][NextSeq]_vars

\* the same behaviours when settled promises are dropped, the clock advances
\* and a timeout that is due fires
SpecSeqFair ==
    SpecSeq /\ WF_vars(SeqRetire) /\ WF_vars(SeqExpire) /\ WF_vars(SeqTick)

\* one command message whose arguments are collected, for collectors of one
\* or two arguments of every kind
ObtainLists ==
    LET R(k, w) == Info(k, OMITTED_, FALSE, w)
        O(k) == Info(k, "D", FALSE, 1)
        I(k) == Info(k, OMITTED_, TRUE, 1)
        J(k) == Info(k, "D", TRUE, 1)
    IN {<<R("k1", 1)>>, <<R("k1", 0)>>, <<R("k1", Infinity)>>, <<O("k1")>>, <<I("k1")>>, <<J("k1")>>,
        <<R("k1", 1), R("k2", 1)>>, <<R("k1", 1), R("k1", 1)>>,
        <<R("k1", 1), O("k2")>>, <<O("k1"), R("k2", 1)>>,
        <<R("k1", 1), I("k2")>>, <<O("k1"), J("k2")>>}

ObtainCommands ==
    {Command(FALSE, FALSE, 1, 1, TRUE, c) :
        c \in Collectors({CtorCall(TRUE, a, given, limit) :
                             a \in ObtainLists, given \in BOOLEAN, limit \in {0, 1, 2}})}

InitObtain ==
    /\ scn = Scenario(1, {"u1"}, {"c1"}, {FALSE}, {"", "good", "bad"},
                      RawValues, 2)
    /\ cmd \in ObtainCommands
    /\ InitRuns
    /\ InitNoCtor

NextObtain ==
    /\ \/ \E m \in Msgs : Retire(m)
       \/ Quiet /\ \E m \in Msgs : Run(m)
    /\ UNCHANGED <<en, recent, reg, num, prov>>

SpecObtain == InitObtain /\ [][NextObtain]_vars

\* the argument infos told apart by the fields the constructors branch on
CtorInfos == {info \in ArgInfos : info.key = "k1" /\ info.wait = 1}

\* a collector constructor call on any argument definitions
InitCtor ==
    /\ scn = Scenario(0, {}, {}, {}, {}, {}, 0)
    /\ cmd = Command(FALSE, FALSE, 1, 1, FALSE, NoCollector)
    /\ InitRuns
    /\ ctorIn \in {CtorCall(TRUE, a, given, 1) :
                      a \in BSeq(CtorInfos, MaxArgs), given \in BOOLEAN}
                  \cup {CtorCall(FALSE, << >>, given, 1) : given \in BOOLEAN}
    /\ ctorSt = CtorIdle
    /\ InitNoEnable
    /\ InitNoRegistry
    /\ InitNoNumber
    /\ InitNoProvider

NextCtor ==
    /\ \/ CtorEnter
       \/ CtorLoopStep
       \/ CtorFinish
    /\ UNCHANGED <<en, recent, reg, num, prov>>

SpecCtor == InitCtor /\ [][NextCtor]_vars

\* enable and disable calls and settings loads on one command and its group,
\* guarded or not, in two guilds
InitEnable ==
    /\ scn = Scenario(0, {}, {}, {}, {}, {}, 0)
    /\ cmd = Command(FALSE, FALSE, 1, 1, FALSE, NoCollector)
    /\ InitRuns
    /\ ctorIn = CtorCall(FALSE, << >>, FALSE, 0)
    /\ ctorSt = CtorIdle
    /\ en \in {EnableState(c, g, o) : c \in BOOLEAN, g \in BOOLEAN, o \in BOOLEAN}
    /\ InitNoRegistry
    /\ InitNoNumber
    /\ InitNoProvider

NextEnable ==
    \/ CommandSetEnabled
    \/ GroupSetEnabled
    \/ GuildCommandSetEnabled
    \/ GuildGroupSetEnabled
    \/ ProviderSetupGuild

SpecEnable == InitEnable /\ [][NextEnable]_vars

\* two commands of one group, enabled and disabled globally and per guild;
\* the group is enabled, disabled or not set in g1
InitEnableTwo ==
    /\ scn = Scenario(0, {}, {}, {}, {}, {}, 0)
    /\ cmd = Command(FALSE, FALSE, 1, 1, FALSE, NoCollector)
    /\ InitRuns
    /\ ctorIn = CtorCall(FALSE, << >>, FALSE, 0)
    /\ ctorSt = CtorIdle
    /\ en \in {WithOther([EnableState(c, FALSE, FALSE) EXCEPT !.grpOv["g1"] = g], o) :
                   c \in BOOLEAN, o \in BOOLEAN, g \in Overrides}
    /\ InitNoRegistry
    /\ InitNoNumber
    /\ InitNoProvider

NextEnableTwo ==
    \/ CommandSetEnabled
    \/ OtherSetEnabled

SpecEnableTwo == InitEnableTwo /\ [][NextEnableTwo]_vars

\* calls of the registry with three group objects and five command objects
InitRegistry ==
    /\ scn = Scenario(0, {}, {}, {}, {}, {}, 0)
    /\ cmd = Command(FALSE, FALSE, 1, 1, FALSE, NoCollector)
    /\ InitRuns
    /\ ctorIn = CtorCall(FALSE, << >>, FALSE, 0)
    /\ ctorSt = CtorIdle
    /\ InitNoEnable
    /\ InitNoRegistry
    /\ InitNoNumber
    /\ InitNoProvider

NextRegistry ==
    \/ DoRegisterGroups
    \/ DoRegisterCommands
    \/ DoReregisterCommand
    \/ DoUnregisterCommand

SpecRegistry == InitRegistry /\ [][NextRegistry]_vars

\* integer arguments with every min and max, validating and parsing strings
InitInteger ==
    /\ scn = Scenario(0, {}, {}, {}, {}, {}, 0)
    /\ cmd = Command(FALSE, FALSE, 1, 1, FALSE, NoCollector)
    /\ InitRuns
    /\ ctorIn = CtorCall(FALSE, << >>, FALSE, 0)
    /\ ctorSt = CtorIdle
    /\ InitNoEnable
    /\ InitNoRegistry
    /\ InitNoProvider
    /\ \E min \in InfoBounds, max \in InfoBounds :
          num = [stage |-> "new", infoMin |-> min, infoMax |-> max,
                 min |-> NotGiven, max |-> NotGiven,
                 value |-> << >>, valid |-> FALSE, parsed |-> NaN]

NextInteger ==
    \/ IntegerConstruct
    \/ IntegerValidated
    \/ IntegerParsed

SpecInteger == InitInteger /\ [][NextInteger]_vars

\* string arguments with every min and max, validating and parsing strings
InitString ==
    /\ scn = Scenario(0, {}, {}, {}, {}, {}, 0)
    /\ cmd = Command(FALSE, FALSE, 1, 1, FALSE, NoCollector)
    /\ InitRuns
    /\ ctorIn = CtorCall(FALSE, << >>, FALSE, 0)
    /\ ctorSt = CtorIdle
    /\ InitNoEnable
    /\ InitNoRegistry
    /\ InitNoProvider
    /\ \E min \in StringBounds, max \in StringBounds :
          num = [stage |-> "new", infoMin |-> min, infoMax |-> max,
                 min |-> NotGiven, max |-> NotGiven,
                 value |-> << >>, valid |-> FALSE, parsed |-> << >>]

NextString ==
    \/ IntegerConstruct
    \/ StringValidated
    \/ StringParsed

SpecString == InitString /\ [][NextString]_vars

\* a provider with and without an assigned client and a stored row
InitProvider ==
    /\ scn = Scenario(0, {}, {}, {}, {}, {}, 0)
    /\ cmd = Command(FALSE, FALSE, 1, 1, FALSE, NoCollector)
    /\ InitRuns
    /\ ctorIn = CtorCall(FALSE, << >>, FALSE, 0)
    /\ ctorSt = CtorIdle
    /\ InitNoEnable
    /\ InitNoRegistry
    /\ InitNoNumber
    /\ prov \in {NewProvider(c, r) : c \in BOOLEAN, r \in BOOLEAN}

NextProvider ==
    \/ DoProviderInit
    \/ DoProviderDestroy
    \/ ClientEmits

SpecProvider == InitProvider /\ [][NextProvider]_vars

\* ------------------------------------------------------------------------
\* Properties
\* ------------------------------------------------------------------------
\* the run of m is inside BaseArgumentCollector.obtain
Collecting(m) == pc[m] \in {"prompt", "wait"}

\* command.run was called by the run of m and the run has not been dropped
Invoked(m) == pc[m] \in {"body", "success", "errorReply", "catchThrew"}

\* C1: in every run of a command message the command body is invoked at most
\* once; a run that got past the guild-only, permission and throttle checks
\* and whose argument collection returned uncancelled has invoked it exactly
\* once; a run that ended blocked or with a cancelled collection never has.
C1_BodyInvokedOnce ==
    \A m \in Msgs :
        /\ bodyCalls[m] \in {0, 1}
        /\ pc[m] \in {"blocked", "cancelled"} => bodyCalls[m] = 0
        /\ blockReason[m] # NULL => bodyCalls[m] = 0
        /\ collResult[m].cancelled # NULL => bodyCalls[m] = 0
        /\ Invoked(m) <=> bodyCalls[m] = 1
        /\ collResult[m] # NoResult /\ collResult[m].cancelled = NULL => bodyCalls[m] = 1

C1_CollectedThenRan ==
    \E m \in Msgs :
        /\ pc[m] = "success"
        /\ bodyCalls[m] = 1
        /\ collResult[m] # NoResult
        /\ Len(collResult[m].prompts) > 0

\* C2: within one throttle window the command bodies run for the same
\* non-owner user never number more than the usages ceiling, whatever the
\* interleaving of that user's runs.
C2_UsagesCeiling ==
    \A id \in Msgs : thr[id].made => thr[id].ran <= cmd.usages

\* C3: when the runs follow one another, a run of a non-owner user whose
\* throttle check falls inside the window is let through while fewer than
\* usages bodies have run in the window, and runs the body unless its
\* collection is cancelled or throws; once usages bodies have run it is
\* blocked with reason throttling and a positive remaining time.
C3_SequentialThrottle ==
    \A m \in Msgs :
        thrRef[m] # 0 /\ inWindow[m] =>
            /\ prevRuns[m] < cmd.usages =>
                  /\ pc[m] # "blocked"
                  /\ blockReason[m] = NULL
                  /\ pc[m] \in {"success", "errorReply"} => bodyCalls[m] = 1
            /\ prevRuns[m] >= cmd.usages =>
                  /\ pc[m] = "blocked"
                  /\ blockReason[m] = "throttling"
                  /\ remaining[m] > 0
                  /\ bodyCalls[m] = 0

C3_ThirdBlocked ==
    \E m \in Msgs :
        /\ cmd.usages = 2
        /\ m = 3
        /\ prevRuns[m] = 2
        /\ inWindow[m]
        /\ blockReason[m] = "throttling"
        /\ remaining[m] > 0

\* C4: while an argument collection started for a user+channel pair is in
\* progress the pair is in the awaiting set, also when another collection for
\* the same pair has ended meanwhile.
C4_MarkedWhileCollecting ==
    \A m \in Msgs : Collecting(m) => AwaitKey(msg[m]) \in awaiting

\* C5: a user+channel pair for which no collection is running is not in the
\* awaiting set, however the collections for it ended: success, cancellation,
\* or an error thrown by a validator, a parser or the sending of a prompt.
C5_UnmarkedWhenNoneCollecting ==
    \A u \in Users, ch \in Channels :
        (\A m \in Msgs : ~(Collecting(m) /\ msg[m] = [author |-> u, channel |-> ch]))
            => <<u, ch>> \notin awaiting

C5_ObtainThrewAndUnmarked ==
    \E m \in Msgs :
        /\ pc[m] = "threw"
        /\ thrRef[m] # 0
        /\ bodyCalls[m] = 0
        /\ AwaitKey(msg[m]) \notin awaiting
        /\ \A k \in Msgs : ~Collecting(k)

\* the argument the run of m is collecting, and what the message supplied for it
CurrentArg(m) == cmd.collector.args[loc[m].i + 1]
Supplied(m) == ProvidedFor(CurrentArg(m), provided[m], loc[m].i)
NothingSupplied(m) ==
    IF CurrentArg(m).infinite THEN Supplied(m) = << >> ELSE Falsy(Supplied(m))

\* C6: an argument that has a default and for which nothing was supplied is
\* never prompted for, an infinite argument with no values left included.
C6_DefaultWithoutPrompt ==
    \A m \in Msgs :
        Collecting(m) => ~(CurrentArg(m).dflt # NULL /\ NothingSupplied(m))

HasDefault(info) == info.dflt \notin {OMITTED_, NULL}
CtorEnded == ctorSt.state \in {"ok", "threw"}

\* C7: the constructor throws whenever an argument definition without a
\* default (omitted or null) comes after one that has a default.
C7_RequiredAfterOptionalFails ==
    (/\ CtorEnded
     /\ ctorIn.isArray
     /\ \E i, j \in 1..Len(ctorIn.args) :
           i < j /\ HasDefault(ctorIn.args[i]) /\ ~HasDefault(ctorIn.args[j]))
        => ctorSt.state = "threw"

\* C8: the constructor throws whenever an argument definition comes after an
\* infinite one, so a constructed collector has at most one infinite argument
\* and it is the last.
C8_InfiniteIsLast ==
    /\ (/\ CtorEnded
        /\ ctorIn.isArray
        /\ \E i, j \in 1..Len(ctorIn.args) : i < j /\ ctorIn.args[i].infinite)
          => ctorSt.state = "threw"
    /\ ctorSt.state = "ok" =>
          \A i \in 1..Len(ctorSt.args) : ctorSt.args[i].infinite => i = Len(ctorSt.args)

C8_ThrewAfterInfinite ==
    /\ ctorSt.state = "threw"
    /\ ctorSt.err = "No other argument may come after an infinite argument."
    /\ ctorSt.i = 2
    /\ Len(ctorIn.args) = 3

\* C9: the constructor throws when the argument definitions are an empty
\* list or no list, so no constructed collector has zero arguments.
C9_EmptyRejected ==
    /\ (CtorEnded /\ (~ctorIn.isArray \/ Len(ctorIn.args) = 0)) => ctorSt.state = "threw"
    /\ ctorSt.state = "ok" => Len(ctorSt.args) > 0

\* C10: while one argument is obtained, single-valued or infinite, no more
\* prompts are sent for it than the collector's promptLimit.
C10_PromptsWithinLimit ==
    \A m \in Msgs :
        Collecting(m) => Len(loc[m].prompts) <= cmd.collector.promptLimit

\* a reply that is 'cancel' whatever its case
IsCancel(r) == ToLowerCase(r) = "cancel"

\* the collector of the command has single-valued arguments only
AllSingle == \A i \in 1..Len(cmd.collector.args) : ~cmd.collector.args[i].infinite

\* C11: in the prompt loop of a single-valued argument a reply of "cancel" in
\* any case ends obtain at once: no run is still collecting a single-valued
\* argument after such a reply, the result is cancelled with reason user and
\* null values, the reply is its last answer, and as many prompts as answers
\* were recorded for the argument (one of each after an invalid supplied value
\* and one reply).
C11_CancelReplyEndsObtain ==
    \A m \in Msgs :
        /\ (Collecting(m) /\ ~CurrentArg(m).infinite) =>
              \A j \in 1..Len(loc[m].answers) : ~IsCancel(loc[m].answers[j])
        /\ (AllSingle /\ \E j \in 1..Len(collResult[m].answers) :
                             IsCancel(collResult[m].answers[j])) =>
              /\ collResult[m].cancelled = "user"
              /\ collResult[m].values = NullValues
              /\ \A j \in 1..Len(collResult[m].answers) :
                    IsCancel(collResult[m].answers[j]) => j = Len(collResult[m].answers)
              /\ pc[m] = "cancelled"
              /\ Len(cmd.collector.args) = 1 =>
                    Len(collResult[m].prompts) = Len(collResult[m].answers)

C11_InvalidThenCancel ==
    \E m \in Msgs :
        /\ AllSingle
        /\ pc[m] = "cancelled"
        /\ collResult[m].cancelled = "user"
        /\ collResult[m].prompts = <<"invalid">>
        /\ collResult[m].answers = <<"Cancel">>

\* prompts and answers gathered by the run of m up to now, in order
PromptsSoFar(m) == ConcatPrompts(loc[m].results) \o loc[m].prompts
AnswersSoFar(m) == ConcatAnswers(loc[m].results) \o loc[m].answers

\* C12: a run that waits for a reply ends with reason time only when the wait
\* of the argument it is collecting is neither zero nor infinite; obtain then
\* returns cancelled with null values and the prompts and answers gathered up
\* to then, sending no further prompt.
C12_TimeoutCancels ==
    [][\A m \in Msgs :
          (pc[m] = "wait" /\ collResult'[m].cancelled = "time") =>
              /\ CurrentArg(m).wait \notin {0, Infinity}
              /\ pc'[m] = "cancelled"
              /\ collResult'[m].values = NullValues
              /\ collResult'[m].prompts = PromptsSoFar(m)
              /\ collResult'[m].answers = AnswersSoFar(m)
              /\ bodyCalls'[m] = 0]_vars

C12_TimedOutAfterPrompt ==
    \E m \in Msgs :
        /\ pc[m] = "cancelled"
        /\ collResult[m].cancelled = "time"
        /\ Len(collResult[m].prompts) = 2
        /\ Len(collResult[m].answers) = 1

IsPrefix(a, b) == Len(a) <= Len(b) /\ SubSeq(b, 1, Len(a)) = a

\* C13: the collector obtains its arguments in declaration order and stops at
\* the first cancelled one: while it collects argument i it holds one
\* uncancelled result for each argument before i and none for a later one; the
\* index never goes back and the prompts and answers only grow; a cancelled
\* collector result has null values and exactly the prompts gathered before
\* the cancelling step, with at most the cancelling reply added to the answers.
C13_InOrderUntilCancelled ==
    [][\A m \in Msgs :
          /\ Collecting(m) =>
                /\ Len(loc[m].results) = loc[m].i
                /\ loc[m].i < Len(cmd.collector.args)
                /\ \A j \in 1..Len(loc[m].results) : loc[m].results[j].cancelled = NULL
          /\ (Collecting(m) /\ Collecting(m)') =>
                /\ loc'[m].i >= loc[m].i
                /\ IsPrefix(PromptsSoFar(m), PromptsSoFar(m)')
                /\ IsPrefix(AnswersSoFar(m), AnswersSoFar(m)')
          /\ (Collecting(m) /\ collResult'[m].cancelled # NULL) =>
                /\ pc'[m] = "cancelled"
                /\ collResult'[m].values = NullValues
                /\ collResult'[m].prompts = PromptsSoFar(m)
                /\ IsPrefix(AnswersSoFar(m), collResult'[m].answers)
                /\ Len(collResult'[m].answers) <= Len(AnswersSoFar(m)) + 1
          /\ (pc[m] \in {"new", "fetch"} /\ collResult'[m].cancelled # NULL) =>
                /\ pc'[m] = "cancelled"
                /\ collResult'[m].values = NullValues
                /\ collResult'[m].prompts = << >>
                /\ collResult'[m].answers = << >>]_vars

C13_TimeoutOnFirstOfTwo ==
    \E m \in Msgs :
        /\ Len(cmd.collector.args) = 2
        /\ \A i \in 1..2 : cmd.collector.args[i].dflt = NULL /\ ~cmd.collector.args[i].infinite
        /\ pc[m] = "cancelled"
        /\ collResult[m].cancelled = "time"
        /\ Len(collResult[m].prompts) = 1
        /\ collResult[m].answers = << >>

\* the collection of the run of m returned uncancelled
Collected(m) == collResult[m] # NoResult /\ collResult[m].cancelled = NULL

\* C14: on full success the values of the collector result have one entry per
\* declared argument, under that argument's key.
C14_OneEntryPerArgument ==
    \A m \in Msgs :
        Collected(m) =>
            /\ \A i \in 1..Len(cmd.collector.args) :
                  collResult[m].values[cmd.collector.args[i].key] # ABSENT
            /\ Cardinality({k \in ArgKeys : collResult[m].values[k] # ABSENT})
                  = Len(cmd.collector.args)

IsFinish(r) == ToLowerCase(r) = "finish"

\* the obtain of the run of m returns in this step on the reply r
ReturnsOn(m, r) ==
    /\ pc[m] = "wait"
    /\ collResult'[m] # NoResult
    /\ collResult'[m].answers = Append(AnswersSoFar(m), r)

\* C15: for an infinite argument the reply "finish" returns the values
\* collected so far, in the order they were collected, when there is at least
\* one, and a cancelled result with null values when there is none; the reply
\* "cancel" returns a cancelled result with null values however many values
\* were collected; no infinite argument is still collected after either reply.
C15_FinishAndCancel ==
    [][\A m \in Msgs :
          /\ (Collecting(m) /\ CurrentArg(m).infinite) =>
                \A j \in 1..Len(loc[m].answers) :
                    ~IsFinish(loc[m].answers[j]) /\ ~IsCancel(loc[m].answers[j])
          /\ (Collecting(m) /\ Collecting(m)' /\ loc'[m].i = loc[m].i) =>
                IsPrefix(loc[m].iresults, loc'[m].iresults)
          /\ (Collecting(m) /\ CurrentArg(m).infinite) =>
                \A r \in RawValues :
                    /\ (ReturnsOn(m, r) /\ IsFinish(r) /\ loc[m].iresults # << >>) =>
                          /\ collResult'[m].cancelled = NULL
                          /\ collResult'[m].values[CurrentArg(m).key] = VMany(loc[m].iresults)
                          /\ pc'[m] = "body"
                    /\ (ReturnsOn(m, r) /\ IsFinish(r) /\ loc[m].iresults = << >>) =>
                          /\ collResult'[m].cancelled = "user"
                          /\ collResult'[m].values = NullValues
                          /\ pc'[m] = "cancelled"
                    /\ (ReturnsOn(m, r) /\ IsCancel(r)) =>
                          /\ collResult'[m].cancelled = "user"
                          /\ collResult'[m].values = NullValues
                          /\ pc'[m] = "cancelled"]_vars

C15_FinishedWithValues ==
    \E m \in Msgs :
        /\ pc[m] = "body"
        /\ Collected(m)
        /\ Len(collResult[m].answers) > 0
        /\ IsFinish(collResult[m].answers[Len(collResult[m].answers)])
        /\ \E k \in ArgKeys : collResult[m].values[k] = VMany(<<"GOOD">>)

\* the guild's override for the command if one is present, otherwise the
\* command's global flag
OverrideOrGlobal(ov, global) == IF ov # UNSET THEN ov = "true" ELSE global

\* C16 (as stated): in every guild isEnabledIn is true if the command is
\* guarded, otherwise the guild's override for the command if present,
\* otherwise the command's global flag.
C16_OverrideThenGlobal ==
    \A g \in Guilds :
        IsEnabledIn(en, g) =
            (en.cmdGuarded \/ OverrideOrGlobal(en.cmdOv[g], en.cmdGlobal))

\* C16 (amended): the guild's isCommandEnabled is that value, and isEnabledIn
\* of a command that is not guarded is that value and the group's: the group
\* is guarded, or its override in the guild if present, otherwise its global flag.
C16_CommandAndGroup ==
    \A g \in Guilds :
        /\ IsCommandEnabled(en, g) =
              (en.cmdGuarded \/ OverrideOrGlobal(en.cmdOv[g], en.cmdGlobal))
        /\ IsEnabledIn(en, g) =
              (\/ en.cmdGuarded
               \/ /\ OverrideOrGlobal(en.cmdOv[g], en.cmdGlobal)
                  /\ en.grpGuarded \/ OverrideOrGlobal(en.grpOv[g], en.grpGlobal))

\* C16 witness: the command is enabled by override in g1 and disabled
\* globally, its group is disabled in g1 only, and isEnabledIn differs between
\* the guilds
C16_GroupDisabledInGuild ==
    /\ ~en.cmdGuarded /\ ~en.grpGuarded
    /\ en.cmdOv["g1"] = "true" /\ ~en.cmdGlobal
    /\ en.grpOv["g1"] = "false" /\ en.grpGlobal
    /\ en.cmdOv["g2"] = "true" /\ en.grpOv["g2"] = UNSET
    /\ ~IsEnabledIn(en, "g1") /\ IsEnabledIn(en, "g2")
    /\ en.last.op = "group.setEnabledIn"

\* the global flags and the overrides of every guild
EnabledFlags(s) == <<s.cmdGlobal, s.grpGlobal, s.cmdOv, s.grpOv>>

\* the step is a set call on the command while it is guarded, or on the group
\* while it is guarded
GuardedSetCall ==
    \/ en.cmdGuarded /\ en'.last.op \in {"command.setEnabledIn", "guild.setCommandEnabled"}
    \/ en.grpGuarded /\ en'.last.op \in {"group.setEnabledIn", "guild.setGroupEnabled"}

\* C17: setEnabledIn on a guarded command or a guarded group (and the guild's
\* setCommandEnabled and setGroupEnabled it delegates to) ends in an error for
\* every guild argument and every enabled argument, leaves the global flags
\* and every override as they were, and emits no status change event.
C17_GuardedRejects ==
    [][GuardedSetCall =>
          /\ en'.last.err # NULL
          /\ ~en'.last.emitted
          /\ EnabledFlags(en') = EnabledFlags(en)]_vars

\* C17 witness: the command is guarded and was disabled in g1 by a settings
\* load; setEnabledIn for g1 then threw, and the override is still there
C17_GuardedThrewInGuild ==
    /\ en.cmdGuarded
    /\ en.last.op = "command.setEnabledIn"
    /\ en.last.guild = "g1"
    /\ en.last.err = "The command is guarded."
    /\ en.cmdOv["g1"] = "false"

\* C18: after any sequence of enable and disable calls and settings loads, a
\* guarded command is reported enabled by isEnabledIn for every guild and for
\* no guild, by every guild's isCommandEnabled, and by isUsable called
\* without a message.
C18_GuardedAlwaysEnabled ==
    en.cmdGuarded =>
        /\ \A guild \in Guilds \cup {NULL} : IsEnabledIn(en, guild)
        /\ \A g \in Guilds : IsCommandEnabled(en, g)
        /\ IsUsable(en, NoContext) = "true"

\* C18 witness: a guarded command whose global flag a settings load cleared
C18_GuardedGlobalFlagCleared ==
    /\ en.cmdGuarded
    /\ ~en.cmdGlobal
    /\ en.last.op = "provider.setupGuild"
    /\ en.last.guild = NULL

C20_SlidingWindow ==
    cmd.throttled => \A u \in Users \ Owners : Len(recent[u]) <= cmd.usages

\* C20 witness: more calls of command.run than usages lie less than the
\* duration apart, the last of them under a throttle object created after
\* the one of the first expired
C20_BurstAcrossExpiry ==
    \E u \in Users \ Owners :
        /\ cmd.throttled
        /\ Len(recent[u]) > cmd.usages
        /\ throttles[u] # 0
        /\ thr[throttles[u]].age < recent[u][1]

\* the throttle objects of user u whose timeout is pending
Pending(u) == {id \in timers : thr[id].user = u}

\* the run of message m went through the throttle check in this step
ThrottleChecked(m) ==
    /\ pc[m] \in {"new", "fetch"}
    /\ pc'[m] \notin {"new", "fetch", "threw"}
    /\ ~(pc'[m] = "blocked" /\ blockReason'[m] \in {"guildOnly", "permission"})

\* _throttles holds for each user just the object whose timeout is pending
OneRecord == \A u \in Users : Pending(u) = {throttles[u]} \ {0}

\* a use by a user who is not an owner and has no object creates one, counted
\* from zero, inside its window
CreatedOnFirstUse ==
    \A m \in Msgs :
        (ThrottleChecked(m) /\ cmd.throttled /\ ~IsOwner(msg'[m].author)
            /\ throttles[msg'[m].author] = 0) =>
                /\ throttles'[msg'[m].author] = m
                /\ m \in timers'
                /\ thr'[m].age = 0
                /\ thr'[m].usages = bodyCalls'[m]
                /\ prevRuns'[m] = 0 /\ inWindow'[m]

\* while its timeout is pending an object keeps its user and its start: its
\* age changes only when the clock ticks, never when it is used
StartKept ==
    \A id \in timers \cap timers' :
        /\ thr'[id].user = thr[id].user
        /\ \/ thr'[id].age = thr[id].age
           \/ thr'[id].age = thr[id].age + 1 /\ pc' = pc /\ thr'[id].usages = thr[id].usages

\* an object leaves _throttles when the duration has passed since it was made
DeletedAtDuration ==
    \A id \in timers \ timers' :
        /\ thr[id].age = cmd.duration
        /\ throttles[thr[id].user] = id
        /\ throttles'[thr[id].user] = 0

\* C21: a use of a throttled command by a user without a throttle object
\* creates one; there is never more than one per user; its start does not
\* change while it is in the map; it is deleted, whatever the number of uses,
\* once the duration has passed since it was made and no sooner; the next use
\* then makes a new object with no usages.
C21_ThrottleLifecycle ==
    /\ []OneRecord
    /\ [][CreatedOnFirstUse /\ StartKept /\ DeletedAtDuration]_vars
    /\ \A id \in Msgs : (id \in timers) ~> (id \notin timers)

\* C21 witness: command.run was called for the user before the object now in
\* the map was made, and once since
C21_SecondRecord ==
    \E u \in Users :
        /\ throttles[u] > 1
        /\ thr[throttles[u]].usages = 1
        /\ Len(recent[u]) = 2
        /\ recent[u][1] > thr[throttles[u]].age
        /\ recent[u][2] <= thr[throttles[u]].age
        /\ pc[throttles[u]] = "done"

\* the step belongs to the run of message m
RunStep(m) == pc'[m] # pc[m] /\ pc'[m] # "done"

\* C22: a run for an owner is never blocked for throttling and gets no
\* throttle object, and no step of it creates or changes a throttle object,
\* however many times command.run was called for the owner before.
C22_OwnersExempt ==
    [][\A m \in Msgs :
          (RunStep(m) /\ IsOwner(msg'[m].author)) =>
              /\ blockReason'[m] # "throttling"
              /\ thrRef'[m] = 0
              /\ throttles' = throttles
              /\ timers' = timers
              /\ thr' = thr]_vars

\* C22 witness: with usages 1, command.run is called a second time for the
\* owner within the duration, while the throttle object of another user is
\* pending with its usages used up
C22_OwnerSecondCall ==
    /\ cmd.usages = 1
    /\ Len(recent["owner"]) = 2
    /\ \E m \in Msgs : msg[m].author = "owner" /\ pc[m] = "body"
    /\ throttles["u1"] # 0
    /\ thr[throttles["u1"]].usages = 1
    /\ throttles["owner"] = 0

\* the name and the aliases of command object c
NamesOf(c) ==
    {CommandObjs[c].name} \cup {CommandObjs[c].aliases[i] : i \in 1..Len(CommandObjs[c].aliases)}

\* C23: after any sequence of registerCommands, reregisterCommand and
\* unregisterCommand calls, no two registered commands share a name or an
\* alias.
C23_NamesAndAliasesUnique ==
    \A i, j \in 1..Len(reg.commands) :
        i # j => NamesOf(reg.commands[i]) \cap NamesOf(reg.commands[j]) = {}

\* C23 witness: reregisterCommand returned without an error and two registered
\* commands have the alias f
C23_ReregisteredWithTakenAlias ==
    /\ reg.last = [op |-> "reregisterCommand", err |-> NULL]
    /\ Has(reg.commands, 1) /\ Has(reg.commands, 3)
    /\ <<"f">> \in NamesOf(1) \cap NamesOf(3)

\* the step is a call of registerGroups
RegisterGroupsStep == reg'.last.op = "registerGroups" /\ reg' # reg

\* C24: there is at most one registered group per id, and a call of
\* registerGroups leaves every registered group object in its place with its
\* commands, adds only objects whose id was not registered, and changes
\* nothing else but names of registered groups.
C24_GroupKeptAndRenamed ==
    /\ [](\A i, j \in 1..Len(reg.groups) :
             i # j => GroupObjs[reg.groups[i]].id # GroupObjs[reg.groups[j]].id)
    /\ [][RegisterGroupsStep =>
             /\ Len(reg'.groups) >= Len(reg.groups)
             /\ SubSeq(reg'.groups, 1, Len(reg.groups)) = reg.groups
             /\ \A k \in (Len(reg.groups) + 1)..Len(reg'.groups) :
                   \A i \in 1..Len(reg.groups) :
                       GroupObjs[reg'.groups[k]].id # GroupObjs[reg.groups[i]].id
             /\ reg'.gcmds = reg.gcmds
             /\ reg'.commands = reg.commands
             /\ reg'.cgroup = reg.cgroup]_vars

\* C24 witness: the first group object is registered under id g with a
\* command in it, and registering the second object with id g has given it
\* the name Fo
C24_RenamedWithCommands ==
    /\ reg.last = [op |-> "registerGroups", err |-> NULL]
    /\ reg.groups = <<1>>
    /\ reg.gname[1] = <<"F", "o">>
    /\ reg.gcmds[1] = <<1>>
    /\ reg.cgroup[1] = 1

\* the search strings given to findCommands and findGroups
Searches ==
    {<<"f">>, <<"F">>, <<"o">>, <<"f","o">>, <<"f","o","o">>, <<"b","a","r">>,
     <<"g",":","f">>, <<"g",":","f","o","o">>, <<"g">>, <<"h">>,
     <<"u">>, <<"u","t">>, <<"U","t">>, <<"x">>}

Range(seq) == {seq[i] : i \in 1..Len(seq)}

\* the registered commands whose name, an alias or composite id contains str
CommandsContaining(str) ==
    {c \in Range(reg.commands) :
        \/ Includes(CommandObjs[c].name, str)
        \/ \E i \in 1..Len(CommandObjs[c].aliases) : Includes(CommandObjs[c].aliases[i], str)
        \/ Includes(Composite(c), str)}

\* the registered commands whose name, an alias or composite id is str
CommandsEqual(str) ==
    {c \in Range(reg.commands) :
        CommandObjs[c].name = str \/ Has(CommandObjs[c].aliases, str) \/ Composite(c) = str}

\* C25: an inexact findCommands returns every command whose name, alias or
\* composite id contains the lower-cased search string, except that when
\* exactly one command fully equals it the result is that command alone.
C25_InexactCommandSearch ==
    \A search \in Searches :
        Range(FindCommands(reg, search, FALSE)) =
            IF Cardinality(CommandsEqual(Lower(search))) = 1
            THEN CommandsEqual(Lower(search))
            ELSE CommandsContaining(Lower(search))

\* C25 witness: only foo is registered, in group g, and the inexact search for
\* g:f finds nothing
C25_CompositePartNotFound ==
    /\ reg.commands = <<1>>
    /\ reg.last = [op |-> "registerCommands", err |-> NULL]
    /\ FindCommands(reg, <<"g",":","f">>, FALSE) = << >>
    /\ FindCommands(reg, <<"f">>, FALSE) = <<1>>
    /\ FindCommands(reg, <<"g",":","f","o","o">>, FALSE) = <<1>>

\* the registered groups whose id or name contains str, whatever the case
GroupsContaining(str) ==
    {g \in Range(reg.groups) :
        Includes(Lower(GroupObjs[g].id), str) \/ Includes(Lower(reg.gname[g]), str)}

\* the registered groups whose id or name is str, whatever the case
GroupsEqual(str) ==
    {g \in Range(reg.groups) : Lower(GroupObjs[g].id) = str \/ Lower(reg.gname[g]) = str}

\* C26: an inexact findGroups returns every group whose id or name contains
\* the search string, and only when exactly one group's id or name fully
\* equals it that group alone; when several fully match, all matches.
C26_InexactGroupSearch ==
    \A search \in Searches :
        Range(FindGroups(reg, search, FALSE)) =
            IF Cardinality(GroupsEqual(Lower(search))) = 1
            THEN GroupsEqual(Lower(search))
            ELSE GroupsContaining(Lower(search))

\* C26 witness: the groups g and h are both named Ut and the inexact search
\* for ut returns g alone
C26_FirstOfTwoFullMatches ==
    /\ reg.groups = <<1, 3>>
    /\ reg.gname[1] = <<"U","t">> /\ reg.gname[3] = <<"U","t">>
    /\ FindGroups(reg, <<"u","t">>, FALSE) = <<1>>
    /\ FindGroups(reg, <<"u">>, FALSE) = <<1, 3>>

\* what resolveCommand and resolveGroup are given
Resolvables ==
    {Resolvable("command", c) : c \in CommandIds}
    \cup {Resolvable("group", g) : g \in GroupIds}
    \cup {Resolvable("string", str) : str \in Searches \cup {<< >>}}
    \cup {Resolvable("message", c) : c \in CommandIds \cup {0}}
    \cup {Resolvable("other", 0)}

\* the one element of a set of one
TheOne(S) == CHOOSE x \in S : TRUE

\* resolveGroup as stated: the object itself, the only exact match of a
\* string, an error otherwise
GroupResolved(x) ==
    IF x.kind = "group" THEN Returned(x.val)
    ELSE IF x.kind = "string" /\ Cardinality(GroupsEqual(Lower(x.val))) = 1
    THEN Returned(TheOne(GroupsEqual(Lower(x.val))))
    ELSE Unable

\* C27 (as stated): resolveCommand and resolveGroup return an object of
\* their class unchanged, return the only exact match of a string, and throw
\* in every other case.
C27_ResolveOrThrow ==
    \A x \in Resolvables :
        /\ ResolveGroup(reg, x) = GroupResolved(x)
        /\ ResolveCommand(reg, x) =
              IF x.kind = "command" THEN Returned(x.val)
              ELSE IF x.kind = "string" /\ Cardinality(CommandsEqual(Lower(x.val))) = 1
              THEN Returned(TheOne(CommandsEqual(Lower(x.val))))
              ELSE Unable

\* C27 (amended): as stated, except that resolveCommand given a command
\* message returns the command the message holds, null if it holds none.
C27_ResolveMessageToo ==
    \A x \in Resolvables :
        /\ ResolveGroup(reg, x) = GroupResolved(x)
        /\ ResolveCommand(reg, x) =
              IF x.kind \in {"command", "message"} THEN Returned(x.val)
              ELSE IF x.kind = "string" /\ Cardinality(CommandsEqual(Lower(x.val))) = 1
              THEN Returned(TheOne(CommandsEqual(Lower(x.val))))
              ELSE Unable

\* C27 witness: two registered commands have the alias f and two registered
\* groups the name Ut; f and ut resolve to neither, foo and g resolve
C27_SeveralExactMatches ==
    /\ Has(reg.commands, 1) /\ Has(reg.commands, 3)
    /\ reg.groups = <<1, 3>> /\ reg.gname[1] = reg.gname[3]
    /\ ResolveCommand(reg, Resolvable("string", <<"f">>)) = Unable
    /\ ResolveCommand(reg, Resolvable("string", <<"f","o","o">>)) = Returned(1)
    /\ ResolveGroup(reg, Resolvable("string", <<"U","t">>)) = Unable
    /\ ResolveGroup(reg, Resolvable("string", <<"g">>)) = Returned(1)

\* n lies within the bounds, where given
Within(n, min, max) == (min.given => n >= min.n) /\ (max.given => n <= max.n)

\* C28: for every min and max of the info, 0 and negative numbers included,
\* an input the validator accepts parses to a number within them, and an
\* input whose parsed number lies outside them is rejected.
C28_AcceptedWithinBounds ==
    num.stage \in {"validated", "parsed"} =>
        LET int == ParseInt(num.value) IN
        /\ num.valid => ~int.nan /\ Within(int.n, num.infoMin, num.infoMax)
        /\ (~int.nan /\ ~Within(int.n, num.infoMin, num.infoMax)) => ~num.valid
        /\ num.stage = "parsed" =>
              ~num.parsed.nan /\ Within(num.parsed.n, num.infoMin, num.infoMax)

\* C28 witness: with min 0 in the info, -5 was accepted and parsed
C28_NegativeAcceptedWithMinZero ==
    /\ num.stage = "parsed"
    /\ num.infoMin = Given(0)
    /\ num.min = NotGiven
    /\ num.value = <<"-", "5">>
    /\ num.valid
    /\ num.parsed = Number(0 - 5)

\* what a run that just started would do with input in
Checked(m, x, in) == RunChecks(Base(m), x, in, m)

\* the segment e left the throttle records as they are in this state
ThrottleUntouched(e) ==
    e.thr = thr /\ e.throttles = throttles /\ e.timers = timers /\ e.ref = 0

\* the segment e issued no prompt and did not enter the collector
NoPromptIn(e) ==
    /\ e.loc = NewLocals
    /\ e.awaiting = awaiting
    /\ e.coll = NoResult
    /\ e.pc \notin {"prompt", "wait"}

\* the checks of a run about to start decide in the order guild-only,
\* permission, throttle
ChecksInOrder ==
    \A m \in Msgs : pc[m] \in {"new", "fetch"} =>
        \A in \in RunInputs(BOOLEAN), u \in scn.users, ch \in scn.channels :
            LET e == Checked(m, [author |-> u, channel |-> ch], in) IN
            /\ (cmd.guildOnly /\ ~in.guild) =>
                  e.pc = "blocked" /\ e.reason = "guildOnly" /\ ThrottleUntouched(e)
            /\ (~(cmd.guildOnly /\ ~in.guild) /\ in.perm # "true") =>
                  e.pc = "blocked" /\ e.reason = "permission" /\ ThrottleUntouched(e)
            /\ (~(cmd.guildOnly /\ ~in.guild) /\ in.perm = "true" /\ e.pc = "blocked") =>
                  e.reason = "throttling" /\ e.ref # 0
            /\ e.pc = "blocked" => NoPromptIn(e) /\ e.body = 0
            /\ e.pc \in {"prompt", "wait", "body", "cancelled"} =>
                  /\ ~(cmd.guildOnly /\ ~in.guild) /\ in.perm = "true"
                  /\ e.out.blocked = << >>
                  /\ cmd.throttled /\ ~IsOwner(u) => e.ref # 0

\* the run of m ends blocked in this step
BlockedNow(m) == pc[m] # "blocked" /\ pc'[m] = "blocked"

\* a run that ends blocked comes straight from the checks, with one
\* commandBlocked event, one reply, no prompt and no call of the body; blocked
\* by guild-only or permission it leaves the throttle records alone
BlockedStep ==
    \A m \in Msgs : BlockedNow(m) =>
        /\ pc[m] \in {"new", "fetch"}
        /\ out'[m].blocked = <<blockReason'[m]>>
        /\ blockReason'[m] \in {"guildOnly", "permission", "throttling"}
        /\ Len(out'[m].replies) = 1
        /\ out'[m].errors = << >>
        /\ bodyCalls'[m] = 0
        /\ loc'[m] = NewLocals /\ awaiting' = awaiting /\ collResult'[m] = NoResult
        /\ blockReason'[m] \in {"guildOnly", "permission"} =>
              thr' = thr /\ throttles' = throttles /\ timers' = timers /\ thrRef'[m] = 0
        /\ blockReason'[m] = "throttling" => thrRef'[m] # 0 /\ thr' = thr

\* a run that was not blocked has no commandBlocked event
NotBlockedNoEvent ==
    \A m \in Msgs : pc[m] # "blocked" => out[m].blocked = << >> /\ blockReason[m] = NULL

\* C29: the checks of a run decide in the order guild-only, permission,
\* throttle, argument collection, body: a run blocked as guildOnly or
\* permission never creates or touches a throttle record and never issues a
\* prompt, a run blocked as throttling never issues a prompt, and each blocked
\* run emits exactly one commandBlocked event with its reason and returns one
\* reply instead of throwing.
C29_ChecksInFixedOrder ==
    /\ [](ChecksInOrder /\ NotBlockedNoEvent)
    /\ [][BlockedStep]_vars

\* C29 witness: a guild-only throttled command; one run was blocked as
\* guildOnly while another run of the same user holds the throttle record
C29_BlockedBesideThrottledRun ==
    \E m, k \in Msgs :
        /\ m # k
        /\ cmd.guildOnly /\ cmd.throttled
        /\ pc[m] = "blocked" /\ blockReason[m] = "guildOnly"
        /\ out[m] = [blocked |-> <<"guildOnly">>, errors |-> << >>, replies |-> <<"guildOnly">>]
        /\ thrRef[m] = 0
        /\ thrRef[k] = k /\ thr[k].usages = 0 /\ pc[k] \in {"prompt", "wait"}

\* command.run threw, rejected or resolved with an unknown type in this step
BodyFailedNow(m) == pc[m] = "body" /\ pc'[m] \notin {"body", "success"}

\* C30: when the command body throws or its promise rejects, run does not
\* throw: it emits one commandError event and returns one reply, the error's
\* message for a FriendlyError and the generic text for anything else.
C30_ErrorsBecomeReplies ==
    [][\A m \in Msgs : BodyFailedNow(m) =>
          /\ pc'[m] = "errorReply"
          /\ Len(out'[m].errors) = 1
          /\ Len(out'[m].replies) = 1
          /\ out'[m].replies[1] = IF out'[m].errors[1].class = "FriendlyError"
                                  THEN out'[m].errors[1].message
                                  ELSE GenericMessage]_vars

\* C30 witness: the body rejected with null or undefined; commandError was
\* emitted, no reply was returned and run threw
C30_RejectedWithNothing ==
    \E m \in Msgs :
        /\ pc[m] = "catchThrew"
        /\ bodyCalls[m] = 1
        /\ out[m].errors = <<Caught(NULL, NULL)>>
        /\ out[m].replies = << >>

\* what the next segment of the collector obtain of m can come to, with the
\* arguments parsed from the message: from its entry for every parsed
\* argument list, and from a wait for every reply and for the timeout
ObtainOutcomes(m) ==
    IF pc[m] = "wait"
    THEN {[given |-> provided[m], o |-> OnReply(cmd.collector, provided[m], loc[m], r)] :
             r \in scn.replies}
         \cup {[given |-> provided[m], o |-> OnTimeout(cmd.collector, provided[m], loc[m])]}
    ELSE IF pc[m] \in {"new", "fetch"} /\ cmd.hasCollector /\ Len(cmd.collector.args) > 0
    THEN {[given |-> g, o |-> CollectorLoop(cmd.collector, g, NewLocals)] : g \in ParsedArgs}
    ELSE {}

\* the last element of a non-empty list
Last(seq) == seq[Len(seq)]

\* the string a single-valued obtain ended its loop with: the last reply, or
\* the supplied value when there was no reply
FinalString(res, given) == IF res.answers = << >> THEN given ELSE Last(res.answers)

\* C31: a non-infinite argument whose supplied value the validator accepts
\* returns with no prompt and with the parser's value for that string; every
\* successful obtain returns the parser's value for the last string that
\* passed validation, and never the parser's value for a rejected string.
C31_ParsesTheValidatedString ==
    \A m \in Msgs : \A oc \in ObtainOutcomes(m) :
        \A j \in 1..Len(oc.o.c.results) :
            LET res == oc.o.c.results[j]
                arg == cmd.collector.args[j]
                given == ProvidedFor(arg, oc.given, j - 1)
                str == FinalString(res, given)
            IN (~arg.infinite /\ res.cancelled = NULL /\ ~(Falsy(given) /\ arg.dflt # NULL)) =>
                  /\ Validate(str) = "true"
                  /\ res.values = VOne(Parse(str))
                  /\ Len(res.prompts) = Len(res.answers)
                  /\ (~Falsy(given) /\ Validate(given) = "true") =>
                        res.prompts = << >> /\ res.answers = << >> /\ str = given

\* C31 witness: of two arguments the first took its supplied value without a
\* prompt, the second rejected its supplied value and then a reply with a
\* validator message, and parsed the next reply
C31_SuppliedAndReplied ==
    \E m \in Msgs :
        /\ pc[m] = "body"
        /\ Len(cmd.collector.args) = 2
        /\ collResult[m].cancelled = NULL
        /\ collResult[m].values["k1"] = VOne("GOOD")
        /\ collResult[m].values["k2"] = VOne("GOOD2")
        /\ collResult[m].prompts = <<"invalid", "msg">>
        /\ collResult[m].answers = <<"warn", "good2">>

\* the step is a call of setEnabledIn on the command
SetEnabledInCalled == en' # en /\ en'.last.op = "command.setEnabledIn"

\* the second command and the group are as they were
OthersKept ==
    /\ en'.otherGuarded = en.otherGuarded
    /\ en'.otherGlobal = en.otherGlobal
    /\ en'.otherOv = en.otherOv
    /\ en'.grpGlobal = en.grpGlobal
    /\ en'.grpOv = en.grpOv
    /\ \A h \in Guilds \cup {NULL} : IsEnabledIn(AsOther(en'), h) = IsEnabledIn(AsOther(en), h)

\* C32: setEnabledIn with a null guild changes only the command's global
\* flag, and with a guild only that guild's override for the command: the
\* command's state in every other guild that has its own override, and the
\* state of the other command, are unchanged.
C32_SetEnabledInFrame ==
    [][SetEnabledInCalled =>
          /\ OthersKept
          /\ en'.cmdGuarded = en.cmdGuarded
          /\ en'.last.guild = NULL =>
                /\ en'.cmdOv = en.cmdOv
                /\ \A h \in Guilds : en.cmdOv[h] # UNSET =>
                      /\ IsCommandEnabled(en', h) = IsCommandEnabled(en, h)
                      /\ IsEnabledIn(en', h) = IsEnabledIn(en, h)
          /\ en'.last.guild \in Guilds =>
                /\ en'.cmdGlobal = en.cmdGlobal
                /\ \A h \in Guilds \ {en'.last.guild} :
                      /\ en'.cmdOv[h] = en.cmdOv[h]
                      /\ IsEnabledIn(en', h) = IsEnabledIn(en, h)
                /\ IsEnabledIn(en', NULL) = IsEnabledIn(en, NULL)
          /\ en'.last.guild = OMITTED_ \/ en'.last.err # NULL =>
                en'.cmdGlobal = en.cmdGlobal /\ en'.cmdOv = en.cmdOv]_vars

\* C32 witness: the command is disabled globally and in g1 and enabled in g2,
\* the other command is disabled in g2 only
C32_MixedOverrides ==
    /\ en.last = Call("command.setEnabledIn", NULL, NULL, TRUE)
    /\ ~en.cmdGlobal
    /\ en.cmdOv = [g \in Guilds |-> IF g = "g1" THEN "false" ELSE "true"]
    /\ en.otherGlobal
    /\ en.otherOv = [g \in Guilds |-> IF g = "g2" THEN "false" ELSE UNSET]
    /\ IsEnabledIn(en, "g2") /\ ~IsEnabledIn(en, "g1")

\* C33: for every min and max of the info of a string argument, a bound of 0
\* included, the validator accepts a value exactly when it is not empty and
\* its length lies within them.
C33_LengthWithinBounds ==
    num.stage \in {"validated", "parsed"} =>
        (num.valid <=> (/\ num.value # << >>
                        /\ Within(Len(num.value), num.infoMin, num.infoMax)))

\* C33 witness: with max 0 in the info, a string of three characters was
\* accepted and parsed
C33_AcceptedWithMaxZero ==
    /\ num.stage = "parsed"
    /\ num.infoMax = Given(0)
    /\ num.max = NotGiven
    /\ num.value = <<"a", "b", "c">>
    /\ num.valid
    /\ num.parsed = num.value

\* every string of the list is accepted by the validator
AllValid(list) == \A i \in 1..Len(list) : Validate(list[i]) = "true"

\* a non-empty list of non-empty strings
NonEmptyStrings(list) == list # << >> /\ \A i \in 1..Len(list) : ~Falsy(list[i])

\* the position of the first accepted string of a list, 0 if there is none
FirstValid(list) ==
    IF \E k \in 1..Len(list) : Validate(list[k]) = "true"
    THEN CHOOSE k \in 1..Len(list) :
            Validate(list[k]) = "true" /\ \A h \in 1..(k - 1) : Validate(list[h]) # "true"
    ELSE 0

\* the parsed values of the supplied strings, each rejected one replaced by
\* the first accepted reply that follows the replies used before it
RECURSIVE Replaced(_, _)
Replaced(given, answers) ==
    IF given = << >> THEN << >>
    ELSE IF Validate(Head(given)) = "true"
    THEN <<Parse(Head(given))>> \o Replaced(Tail(given), answers)
    ELSE LET k == FirstValid(answers) IN
         IF k = 0 THEN << >>
         ELSE <<Parse(answers[k])>> \o Replaced(Tail(given), Slice(answers, k))

\* C34: an infinite argument given a non-empty list of non-empty strings that
\* all pass validation returns without a prompt the list of their parsed
\* values, in order and of the same length; when a supplied string is
\* rejected and a reply is accepted, the reply's value takes that position and
\* the remaining supplied strings follow in order.
C34_InfiniteKeepsOrder ==
    \A m \in Msgs : \A oc \in ObtainOutcomes(m) :
        \A j \in 1..Len(cmd.collector.args) :
            LET arg == cmd.collector.args[j]
                given == ProvidedFor(arg, oc.given, j - 1)
            IN (arg.infinite /\ NonEmptyStrings(given)) =>
                  /\ AllValid(given) =>
                        ~(oc.o.ctl \in {"prompt", "wait"} /\ oc.o.c.i = j - 1)
                  /\ j <= Len(oc.o.c.results) =>
                        LET res == oc.o.c.results[j] IN
                        /\ AllValid(given) =>
                              /\ res.cancelled = NULL
                              /\ res.prompts = << >> /\ res.answers = << >>
                              /\ res.values = VMany([i \in 1..Len(given) |-> Parse(given[i])])
                        /\ (/\ res.cancelled = NULL
                            /\ res.answers # << >> => ToLowerCase(Last(res.answers)) # "finish")
                           => /\ res.values = VMany(Replaced(given, res.answers))
                              /\ Len(res.values.v) = Len(given)

\* C34 witness: of two supplied strings the first was rejected; a rejected
\* reply and then an accepted one replaced it and the second followed
C34_ReplacedFirstOfTwo ==
    \E m \in Msgs :
        /\ pc[m] = "body"
        /\ Len(cmd.collector.args) = 1
        /\ cmd.collector.args[1].infinite
        /\ collResult[m].cancelled = NULL
        /\ collResult[m].answers = <<"bad", "good2">>
        /\ collResult[m].values["k1"] = VMany(<<"GOOD2", "GOOD">>)

\* C35: in every state of a single-valued obtain answers <= prompts <=
\* answers + 1; at return prompts equals answers for a success, a user
\* cancellation and a prompt-limit cancellation, and answers + 1 for a timeout.
C35_PromptsAndAnswers ==
    \A m \in Msgs :
        /\ (Collecting(m) /\ ~CurrentArg(m).infinite) =>
              /\ Len(loc[m].answers) <= Len(loc[m].prompts)
              /\ Len(loc[m].prompts) <= Len(loc[m].answers) + 1
              /\ pc[m] = "wait" => Len(loc[m].prompts) = Len(loc[m].answers) + 1
        /\ \A oc \in ObtainOutcomes(m) : \A j \in 1..Len(oc.o.c.results) :
              LET res == oc.o.c.results[j] IN
              ~cmd.collector.args[j].infinite =>
                  /\ res.cancelled \in {NULL, "user", "promptLimit", "time"}
                  /\ res.cancelled \in {NULL, "user", "promptLimit"} =>
                        Len(res.prompts) = Len(res.answers)
                  /\ res.cancelled = "time" =>
                        Len(res.prompts) = Len(res.answers) + 1

\* C35 witness: a single-valued obtain timed out at its second prompt
C35_TimedOutAtSecondPrompt ==
    \E m \in Msgs :
        /\ pc[m] = "cancelled"
        /\ AllSingle
        /\ collResult[m].cancelled = "time"
        /\ Len(collResult[m].prompts) = 2
        /\ Len(collResult[m].answers) = 1

\* awaitMessages is called by the run of m in this step
WaitStarts(m) == pc'[m] = "wait" /\ (pc[m] # "wait" \/ loc'[m] # loc[m])

\* the step is the end of the msg.reply that sent a prompt for this wait
PromptedNow(m) ==
    /\ pc[m] = "prompt"
    /\ loc[m].pending # NULL
    /\ loc'[m].prompts = Append(loc[m].prompts, loc[m].pending)

\* the wait is for a further value of an infinite argument: a value was
\* collected already and no supplied value is left at the current position
FurtherEntry(m) ==
    /\ cmd.collector.args[loc'[m].i + 1].infinite
    /\ Len(loc'[m].iresults) > 0
    /\ Falsy(loc'[m].value)

Live(u) == thr[throttles[u]]

\* the run of m ends blocked or with a cancelled collection in this step
EndsWithoutBody(m) ==
    pc[m] \notin {"blocked", "cancelled"} /\ pc'[m] \in {"blocked", "cancelled"}

\* C37: the usage count of a user's live throttle record equals the number of
\* command bodies started for that user since the record was created; a run
\* that is blocked or whose collection is cancelled adds nothing, and a run
\* that starts the body is counted in the live record even when the record it
\* read at its throttle check has expired meanwhile.
C37_UsagesCountInvocations ==
    /\ [](\A u \in Users : throttles[u] # 0 => Live(u).usages = Live(u).started)
    /\ [][\A m \in Msgs : EndsWithoutBody(m) =>
             \A id \in Msgs : thr'[id].usages = thr[id].usages]_vars

\* C37 witness: a run started the body with the record of its throttle
\* check, which had expired; the user's live record counts nothing
C37_CountedInExpiredRecord ==
    \E m \in Msgs : \E u \in Users :
        /\ pc[m] = "body"
        /\ msg[m].author = u
        /\ thrRef[m] # 0
        /\ throttles[u] # 0
        /\ thrRef[m] # throttles[u]
        /\ thr[thrRef[m]].usages = 1
        /\ Live(u).usages = 0
        /\ Live(u).started = 1

\* the registered groups whose id is the groupID of command c
GroupsOf(c) ==
    {g \in GroupIds : Has(reg.groups, g) /\ GroupObjs[g].id = CommandObjs[c].groupID}

\* C38: after any sequence of group registrations, command registrations,
\* re-registrations and unregistrations, a command is in the registry's
\* commands exactly when it is in the commands of the registered group with
\* its groupID, and then its group field is that group.
C38_RegistryAndGroupsAgree ==
    \A c \in CommandIds :
        /\ Has(reg.commands, c) <=> \E g \in GroupsOf(c) : Has(reg.gcmds[g], c)
        /\ Has(reg.commands, c) => reg.cgroup[c] \in GroupsOf(c)

\* C38 witness: unregistering a command object that was never registered
\* threw after it removed the registered command of the same name from the
\* registry, which is still in its group's commands
C38_RemovedFromRegistryOnly ==
    \E c \in CommandIds : \E g \in GroupsOf(c) :
        /\ reg.last = [op |-> "unregisterCommand", err |-> "TypeError"]
        /\ ~Has(reg.commands, c)
        /\ Has(reg.gcmds[g], c)
        /\ reg.cgroup[c] = g

\* C39: after destroy completes none of the listeners subscribed in init is
\* subscribed to the client, and no later change of a prefix or of a command
\* or group status reaches the provider.
C39_DestroyUnsubscribesAll ==
    /\ [](prov.stage = "destroyed" => prov.subscribed = {})
    /\ [][prov.stage = "destroyed" => prov'.settings = prov.settings]_vars

\* C39 witness: after destroy five listeners are still subscribed and a
\* command status change has been written to the provider's settings
C39_ReachedAfterDestroy ==
    /\ prov.stage = "destroyed"
    /\ prov.listeners = << >>
    /\ prov.subscribed = {ProviderEvents[i] : i \in 2..Len(ProviderEvents)}
    /\ "commandStatusChange" \in prov.reachedAfter
    /\ prov.settings.cmd = "false"

====
